---------------------------- MODULE Spec2Model ----------------------------
(***************************************************************************)
(* A model of the NES emulator core: the 6502 CPU (cpu.c), the CPU bus,    *)
(* the PPU (ppu.c), the controllers (cntrler.c) and the driver loop of     *)
(* main.c.                                                                 *)
(*                                                                         *)
(* The whole machine is threaded through the operators as one record M:    *)
(*   M.cpu   the CPU struct (A, X, Y, SP, PC, P, interupt_flags, cycles)   *)
(*   M.ram   c->ram, kept sparse: absent addresses hold 0 (memset)         *)
(*   M.idis  the file-static interupt_disable of cpu.c                     *)
(*   M.ppu   the scalar fields of the PPU struct                           *)
(*   M.vram, M.pal_ram, M.oam, M.fb   the PPU arrays, sparse as M.ram      *)
(*   M.c1, M.c2   the two Controller structs                               *)
(*   M.cart  the cartridge image (immutable)                               *)
(*   M.log   history: the bus accesses of the current operation            *)
(* An operator that models a C function with a result returns a record     *)
(* [m |-> machine after the call, v |-> result].                           *)
(***************************************************************************)
EXTENDS Integers, Sequences, FiniteSets

VARIABLES cpu, ram, interupt_disable, ppu, vram, pal_ram, oam, framebuffer,
          controller1, controller2, cart, main, obs

vars == <<cpu, ram, interupt_disable, ppu, vram, pal_ram, oam, framebuffer,
          controller1, controller2, cart, main, obs>>

---------------------------------------------------------------------------
(* Fixed-width integer arithmetic of C.                                    *)

RECURSIVE BAnd(_, _)
BAnd(a, b) ==
    IF a = 0 \/ b = 0 THEN 0
    ELSE (a % 2) * (b % 2) + 2 * BAnd(a \div 2, b \div 2)

RECURSIVE BOr(_, _)
BOr(a, b) ==
    IF a = 0 THEN b
    ELSE IF b = 0 THEN a
    ELSE (IF a % 2 = 1 \/ b % 2 = 1 THEN 1 ELSE 0) + 2 * BOr(a \div 2, b \div 2)

RECURSIVE BXor(_, _)
BXor(a, b) ==
    IF a = 0 THEN b
    ELSE IF b = 0 THEN a
    ELSE ((a + b) % 2) + 2 * BXor(a \div 2, b \div 2)

U8(x) == x % 256

U16(x) == x % 65536

\* ~x of a byte, as seen through an 8-bit mask
Not8(x) == 255 - x

\* ~x of a 16-bit value, as seen through a 16-bit mask
Not16(x) == 65535 - x

Shl(x, n) == x * (2 ^ n)

Shr(x, n) == x \div (2 ^ n)

\* (x & mask) != 0
Test(x, mask) == BAnd(x, mask) # 0

\* Sparse arrays: an absent index holds 0.
Get(f, k) == IF k \in DOMAIN f THEN f[k] ELSE 0

Put(f, k, v) ==
    IF v = 0 THEN [x \in DOMAIN f \ {k} |-> f[x]]
    ELSE [x \in DOMAIN f \cup {k} |-> IF x = k THEN v ELSE f[x]]

Empty == [x \in {} |-> 0]

---------------------------------------------------------------------------
(* cpu.c: constants                                                        *)

INTERRUPT_NMI == 1
INTERRUPT_IRQ == 2
DELAYED_INTERRUPT_DISABLE == 4

FLAG_C == 1
FLAG_Z == 2
FLAG_I == 4
FLAG_D == 8
FLAG_B == 16
FLAG_U == 32
FLAG_V == 64
FLAG_N == 128



---------------------------------------------------------------------------
(* ines.h: the cartridge.  prg_rom and chr_rom are sparse byte maps over   *)
(* a fill byte; prg_size and chr_size are the sizes of the two arrays.     *)

prg_rom(c, offset) ==
    IF offset \in DOMAIN c.prg_rom THEN c.prg_rom[offset] ELSE c.prg_fill

chr_rom(c, offset) == Get(c.chr_rom, offset)

---------------------------------------------------------------------------
(* cntrler.c                                                               *)

controller_set_state(cntrl, state) == [cntrl EXCEPT !.state = state]

\* controller_reload without the reload: the shift register as it is
controller_reload_never(cntrl) == cntrl.shift_reg

\* the shift register after the strobe reload, before the shift
controller_reload(cntrl) ==
    IF cntrl.strobe # 0 THEN cntrl.state ELSE cntrl.shift_reg

controller_read(cntrl) ==
    LET sr == controller_reload(cntrl)
    IN  [c |-> [cntrl EXCEPT !.shift_reg = BOr(Shr(sr, 1), 64)],
         v |-> sr % 2]

controller_write_strobe(ctrl, val) ==
    LET old_strobe == ctrl.strobe
        strobe     == val % 2
    IN  [ctrl EXCEPT !.strobe = strobe,
                     !.shift_reg = IF old_strobe # 0 /\ strobe = 0
                                   THEN ctrl.state ELSE @]

---------------------------------------------------------------------------
(* ppu.c: PPU memory                                                       *)

\* the index into p->vram of a nametable address (0x2000..0x3EFF); a mask
\* of the low n bits is the remainder modulo 2^n
nametable_index(mirror, addr) ==
    LET m0 == addr % \h1000
        m1 == IF mirror = 0
              THEN LET a == IF m0 >= \h0400 /\ m0 < \h0800 THEN m0 - \h0400 ELSE m0
                   IN  IF a >= \h0C00 THEN a - \h0800 ELSE a
              ELSE IF m0 >= \h0800 THEN m0 - \h0800 ELSE m0
    IN  m1 % \h0800

\* palette_index without the alias of 0x1C to 0x0C
palette_index_1C_apart(addr) ==
    LET a0 == addr % \h20
        a1 == IF a0 = \h10 THEN 0 ELSE a0
        a2 == IF a1 = \h14 THEN \h04 ELSE a1
    IN  IF a2 = \h18 THEN \h08 ELSE a2

\* the index into p->pal_ram of a palette address (0x3F00..0x3FFF)
palette_index(addr) ==
    LET a0 == addr % \h20
        a1 == IF a0 = \h10 THEN 0 ELSE a0
        a2 == IF a1 = \h14 THEN \h04 ELSE a1
        a3 == IF a2 = \h18 THEN \h08 ELSE a2
    IN  IF a3 = \h1C THEN \h0C ELSE a3

ppu_vram_read_byte(M, addr0) ==
    LET addr == addr0 % \h4000
    IN  IF addr < \h2000 THEN chr_rom(M.cart, addr % M.cart.chr_size)
        ELSE IF addr < \h3F00
             THEN Get(M.vram, nametable_index(M.cart.mirror, addr))
        ELSE Get(M.pal_ram, palette_index(addr))

ppu_vram_write_byte(M, addr0, val) ==
    LET addr == addr0 % \h4000
    IN  IF addr < \h2000 THEN M
        ELSE IF addr < \h3F00
             THEN [M EXCEPT !.vram =
                       Put(@, nametable_index(M.cart.mirror, addr), val)]
        ELSE [M EXCEPT !.pal_ram = Put(@, palette_index(addr), val)]

\* vram_addr += 32 or 1, per PPUCTRL bit 2
vram_increment(M) ==
    [M EXCEPT !.ppu.vram_addr =
        U16(@ + (IF Test(M.ppu.ppuctrl, 4) THEN 32 ELSE 1))]

\* ppu_vram_read without the read buffer: the byte at vram_addr is returned
ppu_vram_read_unbuffered(M) ==
    [m |-> vram_increment(M), v |-> ppu_vram_read_byte(M, M.ppu.vram_addr)]

ppu_vram_read(M) ==
    LET addr == M.ppu.vram_addr
        data == IF addr >= \h3F00 THEN ppu_vram_read_byte(M, addr)
                ELSE M.ppu.read_buffer
        buf  == IF addr >= \h3F00
                THEN ppu_vram_read_byte(M, BAnd(addr, \h2FFF))
                ELSE ppu_vram_read_byte(M, addr)
    IN  [m |-> vram_increment([M EXCEPT !.ppu.read_buffer = buf]),
         v |-> data]

ppu_vram_write(M, val) ==
    vram_increment(ppu_vram_write_byte(M, M.ppu.vram_addr, val))

---------------------------------------------------------------------------
(* ppu.c: the register interface                                           *)

\* PPUSTATUS read: the VBlank bit and the NMI request are cleared only
\* outside scanlines 241..260
status_read_clear(p) ==
    IF p.scanline < 241 \/ p.scanline > 260
    THEN [p EXCEPT !.ppustatus = BAnd(@, Not8(\h80)), !.nmi_occurred = FALSE]
    ELSE p

\* ppu_reg_read whose PPUSTATUS read leaves write_toggle
ppu_reg_read_toggle_kept(M, addr) ==
    LET reg == addr % 8
    IN  CASE reg = 2 ->
               [m |-> [M EXCEPT !.ppu = status_read_clear(@)],
                v |-> M.ppu.ppustatus]
          [] reg = 4 -> [m |-> M, v |-> Get(M.oam, M.ppu.oamaddr)]
          [] reg = 7 -> ppu_vram_read(M)
          [] OTHER   -> [m |-> M, v |-> 0]

ppu_reg_read(M, addr) ==
    LET reg == addr % 8
    IN  CASE reg = 2 ->
               [m |-> [M EXCEPT !.ppu =
                          status_read_clear([@ EXCEPT !.write_toggle = FALSE])],
                v |-> M.ppu.ppustatus]
          [] reg = 4 -> [m |-> M, v |-> Get(M.oam, M.ppu.oamaddr)]
          [] reg = 7 -> ppu_vram_read(M)
          [] OTHER   -> [m |-> M, v |-> 0]

ppu_reg_write(M, addr, val) ==
    LET reg == addr % 8
        p   == M.ppu
    IN  CASE reg = 0 ->
               [M EXCEPT !.ppu.ppuctrl = val,
                         !.ppu.temp_addr =
                             BOr(BAnd(@, \hF3FF), Shl(BAnd(val, 3), 10))]
          [] reg = 1 -> [M EXCEPT !.ppu.ppumask = val]
          [] reg = 2 -> M
          [] reg = 3 -> [M EXCEPT !.ppu.oamaddr = val]
          [] reg = 4 -> [M EXCEPT !.oam = Put(@, p.oamaddr, val),
                                  !.ppu.oamaddr = U8(@ + 1)]
          [] reg = 5 ->
               IF ~p.write_toggle
               THEN [M EXCEPT !.ppu.temp_addr = BOr(BAnd(@, \hFFE0), Shr(val, 3)),
                              !.ppu.fine_x = BAnd(val, 7),
                              !.ppu.write_toggle = TRUE]
               ELSE LET t1 == U16(BOr(BAnd(p.temp_addr, \h8FFF),
                                      Shl(BAnd(val, 7), 12)))
                        t2 == U16(BOr(BAnd(t1, \hFC1F), Shl(BAnd(val, \hF8), 2)))
                    IN  [M EXCEPT !.ppu.temp_addr = t2,
                                  !.ppu.write_toggle = FALSE]
          [] reg = 6 ->
               IF ~p.write_toggle
               THEN [M EXCEPT !.ppu.temp_addr =
                                  BOr(BAnd(@, \h80FF), Shl(BAnd(val, \h3F), 8)),
                              !.ppu.write_toggle = TRUE]
               ELSE LET t == BOr(BAnd(p.temp_addr, \hFF00), val)
                    IN  [M EXCEPT !.ppu.temp_addr = t,
                                  !.ppu.vram_addr = t,
                                  !.ppu.write_toggle = FALSE]
          [] OTHER -> ppu_vram_write(M, val)

ppu_trigger_nmi(M) ==
    IF M.ppu.nmi_occurred
    THEN [M EXCEPT !.ppu.nmi_occurred = FALSE,
                   !.cpu.interupt_flags = BOr(@, 1)]
    ELSE M

---------------------------------------------------------------------------
(* cpu.c: the bus.  Every access is appended to M.log (history only).      *)
(* Where the result of a call is used more than once it is bound as the    *)
(* parameter of a local operator: LET With(r) == ... IN With(call).        *)

Logged(M, k, addr, val) ==
    [M EXCEPT !.log = Append(@, [k |-> k, a |-> addr, v |-> val])]

\* a controller port of cpu_read: bit 0 from the shift register, 0x40;
\* port is "c1" (0x4016) or "c2" (0x4017)
read_port(M, port) ==
    LET With(r) == [m |-> [M EXCEPT ![port] = r.c], v |-> BOr(r.v, \h40)]
    IN  With(controller_read(M[port]))

\* PRG ROM read at addr - 0x8000 with no mirroring of a 16 KiB image
prg_read_unmirrored(c, addr) == prg_rom(c, addr - \h8000)

\* PRG ROM as cpu_read maps it at 0x8000-0xFFFF
prg_read(c, addr) ==
    LET offset == addr - \h8000
    IN  prg_rom(c, IF c.prg_size = 16384 THEN BAnd(offset, \h3FFF)
                   ELSE BAnd(offset, c.prg_size - 1))

\* cpu_read without the history
bus_read(M, addr) ==
    IF addr >= \h2000 /\ addr < \h4000 /\ M.global_ppu
    THEN ppu_reg_read(M, addr)
    ELSE IF addr = \h4016 THEN read_port(M, "c1")
    ELSE IF addr = \h4017 THEN read_port(M, "c2")
    ELSE IF addr >= \h4000 /\ addr <= \h4017 THEN [m |-> M, v |-> 0]
    ELSE IF addr < \h0800
    THEN [m |-> M, v |-> Get(M.ram, BAnd(addr, \h07FF))]
    ELSE IF addr >= \h8000 THEN [m |-> M, v |-> prg_read(M.cart, addr)]
    ELSE [m |-> M, v |-> 0]

cpu_read(M, addr) ==
    LET With(r) == [m |-> Logged(r.m, "r", addr, r.v), v |-> r.v]
    IN  With(bus_read(M, addr))

\* cpu_write storing into c->ram[addr & 0x07FF] whatever addr is
bus_write_all_ram(M, addr, val) ==
    IF addr >= \h2000 /\ addr < \h4000
    THEN IF M.global_ppu THEN ppu_reg_write(M, addr, val) ELSE M
    ELSE IF addr = \h4016
    THEN [M EXCEPT !.c1 = controller_write_strobe(@, val),
                   !.c2 = controller_write_strobe(@, val)]
    ELSE [M EXCEPT !.ram = Put(@, BAnd(addr, \h07FF), val)]

\* cpu_write without the history
bus_write(M, addr, val) ==
    IF addr >= \h2000 /\ addr < \h4000
    THEN IF M.global_ppu THEN ppu_reg_write(M, addr, val) ELSE M
    ELSE IF addr = \h4016
    THEN [M EXCEPT !.c1 = controller_write_strobe(@, val),
                   !.c2 = controller_write_strobe(@, val)]
    ELSE IF addr < \h0800
    THEN [M EXCEPT !.ram = Put(@, BAnd(addr, \h07FF), val)]
    ELSE M

cpu_write(M, addr, val) == Logged(bus_write(M, addr, val), "w", addr, val)

\* cpu_read(lo_addr) | cpu_read(hi_addr) << 8
read_word(M, lo_addr, hi_addr) ==
    LET Lo(lo) ==
            LET Hi(hi) == [m |-> hi.m, v |-> BOr(lo.v, Shl(hi.v, 8))]
            IN  Hi(cpu_read(lo.m, hi_addr))
    IN  Lo(cpu_read(M, lo_addr))

---------------------------------------------------------------------------
(* cpu.c: helpers                                                          *)

\* the new P of set_flag(c, f, v)
set_flag(P, f, v) == IF v THEN BOr(P, f) ELSE BAnd(P, Not8(f))

get_flag(P, f) == IF BAnd(P, f) # 0 THEN 1 ELSE 0

SetP(M, f, v) == [M EXCEPT !.cpu.P = set_flag(@, f, v)]

fetch_byte(M) ==
    LET With(r) == [m |-> [r.m EXCEPT !.cpu.PC = U16(@ + 1)], v |-> r.v]
    IN  With(cpu_read(M, M.cpu.PC))

fetch_word(M) ==
    LET Lo(lo) ==
            LET Hi(hi) == [m |-> hi.m, v |-> BOr(lo.v, Shl(hi.v, 8))]
            IN  Hi(fetch_byte(lo.m))
    IN  Lo(fetch_byte(M))

push_byte(M, value) ==
    [cpu_write(M, \h100 + M.cpu.SP, value) EXCEPT !.cpu.SP = U8(@ - 1)]

\* pop_byte reading the top of the stack without moving SP
pop_byte_sp_kept(M) == cpu_read(M, \h100 + U8(M.cpu.SP + 1))

pop_byte(M) ==
    cpu_read([M EXCEPT !.cpu.SP = U8(@ + 1)], \h100 + U8(M.cpu.SP + 1))

\* push_word with the bytes in the other order: low byte first
push_word_low_first(M, value) ==
    push_byte(push_byte(M, BAnd(value, \hFF)), BAnd(Shr(value, 8), \hFF))

push_word(M, value) ==
    push_byte(push_byte(M, BAnd(Shr(value, 8), \hFF)), BAnd(value, \hFF))

pop_word(M) ==
    LET Lo(lo) ==
            LET Hi(hi) == [m |-> hi.m, v |-> BOr(Shl(hi.v, 8), lo.v)]
            IN  Hi(pop_byte(lo.m))
    IN  Lo(pop_byte(M))

\* (int8_t) of a byte
int8(b) == IF b >= 128 THEN b - 256 ELSE b

SET_FLAGS(M, reg) ==
    SetP(SetP(M, FLAG_Z, reg = 0), FLAG_N, Test(reg, \h80))

cpu_interrupt(M, type) ==
    [M EXCEPT !.cpu.interupt_flags = U8(BOr(@, type))]

\* handle_interupt clearing both request bits when it services the NMI
handle_interupt_both_cleared(M) ==
    LET nmi == Test(M.cpu.interupt_flags, INTERRUPT_NMI)
        irq == Test(M.cpu.interupt_flags, INTERRUPT_IRQ)
        Vectored(r) ==
            [SetP(push_byte(push_word(
                      [r.m EXCEPT !.cpu.interupt_flags =
                          BAnd(@, Not8(IF nmi
                                       THEN INTERRUPT_NMI + INTERRUPT_IRQ
                                       ELSE INTERRUPT_IRQ))],
                      M.cpu.PC),
                  BOr(M.cpu.P, FLAG_U)), FLAG_I, TRUE)
             EXCEPT !.cpu.PC = r.v]
    IN  IF nmi \/ irq
        THEN Vectored(read_word(M, IF nmi THEN \hFFFA ELSE \hFFFE,
                                   IF nmi THEN \hFFFB ELSE \hFFFF))
        ELSE M

\* handle_interupt pushing P | U | B, as PHP and BRK do
handle_interupt_b_pushed(M) ==
    LET nmi == Test(M.cpu.interupt_flags, INTERRUPT_NMI)
        irq == Test(M.cpu.interupt_flags, INTERRUPT_IRQ)
        Vectored(r) ==
            [SetP(push_byte(push_word(
                      [r.m EXCEPT !.cpu.interupt_flags =
                          BAnd(@, Not8(IF nmi THEN INTERRUPT_NMI
                                       ELSE INTERRUPT_IRQ))],
                      M.cpu.PC),
                  BOr(BOr(M.cpu.P, FLAG_U), FLAG_B)), FLAG_I, TRUE)
             EXCEPT !.cpu.PC = r.v]
    IN  IF nmi \/ irq
        THEN Vectored(read_word(M, IF nmi THEN \hFFFA ELSE \hFFFE,
                                   IF nmi THEN \hFFFB ELSE \hFFFF))
        ELSE M

\* the vector is read first, then the request bit cleared, PC and P | U
\* pushed, I set.  Both vector bytes come from PRG ROM, so the order of the
\* two reads does not show in the machine.
handle_interupt(M) ==
    LET nmi == Test(M.cpu.interupt_flags, INTERRUPT_NMI)
        irq == Test(M.cpu.interupt_flags, INTERRUPT_IRQ)
        Vectored(r) ==
            [SetP(push_byte(push_word(
                      [r.m EXCEPT !.cpu.interupt_flags =
                          BAnd(@, Not8(IF nmi THEN INTERRUPT_NMI
                                       ELSE INTERRUPT_IRQ))],
                      M.cpu.PC),
                  BOr(M.cpu.P, FLAG_U)), FLAG_I, TRUE)
             EXCEPT !.cpu.PC = r.v]
    IN  IF nmi \/ irq
        THEN Vectored(read_word(M, IF nmi THEN \hFFFA ELSE \hFFFE,
                                   IF nmi THEN \hFFFB ELSE \hFFFF))
        ELSE M

\* memset(controllerN, 0, sizeof(Controller))
ControllerZero == [state |-> 0, shift_reg |-> 0, strobe |-> 0]

cpu_reset(M) ==
    LET With(r) == [r.m EXCEPT !.cpu.PC = r.v, !.cpu.cycles = 0]
    IN  With(read_word([M EXCEPT !.ram = Empty,
                                 !.cpu.A = 0, !.cpu.X = 0, !.cpu.Y = 0,
                                 !.cpu.SP = \hFD,
                                 !.cpu.P = BOr(FLAG_U, FLAG_I),
                                 !.c1 = ControllerZero, !.c2 = ControllerZero],
                       \hFFFC, \hFFFD))

---------------------------------------------------------------------------
(* cpu.c: addressing.  Every handler begins by fetching its operand bytes  *)
(* and forming the effective address; ea does that part of the handler     *)
(* for the handler's addressing mode.  The result E is [m, addr, crossed]: *)
(* the machine after the fetches, the effective address, and the handler's *)
(* page_crossed (0 or 1; 0 where the handler computes none).               *)

\* base_addr + index with page_crossed left 0
indexed_no_page_cross(m, base_addr, index) ==
    [m |-> m, addr |-> U16(base_addr + index), crossed |-> 0]

\* base_addr + index, with the page-cross test on the high bytes
indexed(m, base_addr, index) ==
    [m |-> m, addr |-> U16(base_addr + index),
     crossed |-> IF BAnd(base_addr, \hFF00) # BAnd(U16(base_addr + index), \hFF00)
                 THEN 1 ELSE 0]

\* the index register of a mode
index_of(M, mode) ==
    IF mode \in {"ZPX", "ABSX"} THEN M.cpu.X
    ELSE IF mode \in {"ZPY", "ABSY"} THEN M.cpu.Y
    ELSE 0

\* _ZP, _ZPX, _ZPY: (fetch_byte(c) + index) & 0xff
ea_zero_page(M, index) ==
    LET With(f) == [m |-> f.m, addr |-> BAnd(f.v + index, \hFF), crossed |-> 0]
    IN  With(fetch_byte(M))

\* _ABS, _ABSX, _ABSY, and the pointer of JMP_IND: fetch_word(c) + index
ea_absolute(M, index) ==
    LET With(f) == indexed(f.m, f.v, index)
    IN  With(fetch_word(M))

ea_INDX(M) ==
    LET Zp(f) ==
            LET Ptr(pointer_addr) ==
                    LET With(r) == [m |-> r.m, addr |-> r.v, crossed |-> 0]
                    IN  With(read_word(f.m, pointer_addr,
                                       BAnd(pointer_addr + 1, \hFF)))
            IN  Ptr(BAnd(f.v + M.cpu.X, \hFF))
    IN  Zp(fetch_byte(M))

ea_INDY(M) ==
    LET Zp(f) ==
            LET With(r) == indexed(r.m, r.v, M.cpu.Y)
            IN  With(read_word(f.m, f.v, BAnd(f.v + 1, \hFF)))
    IN  Zp(fetch_byte(M))

\* _IMM and the branches read their operand with fetch_byte: the operand
\* is at the old PC
ea(M, mode) ==
    CASE mode \in {"IMP", "ACC"} -> [m |-> M, addr |-> 0, crossed |-> 0]
      [] mode \in {"IMM", "REL"} ->
             [m |-> [M EXCEPT !.cpu.PC = U16(@ + 1)], addr |-> M.cpu.PC,
              crossed |-> 0]
      [] mode \in {"ZP", "ZPX", "ZPY"} -> ea_zero_page(M, index_of(M, mode))
      [] mode \in {"ABS", "ABSX", "ABSY", "IND"} ->
             ea_absolute(M, index_of(M, mode))
      [] mode = "INDX" -> ea_INDX(M)
      [] mode = "INDY" -> ea_INDY(M)

\* the cycles a reading handler returns, before page_crossed
read_cycles(mode) ==
    CASE mode = "IMM" -> 2
      [] mode = "ZP" -> 3
      [] mode \in {"ZPX", "ZPY", "ABS", "ABSX", "ABSY"} -> 4
      [] mode = "INDX" -> 6
      [] mode = "INDY" -> 5

\* the cycles a storing handler returns
store_cycles(mode) ==
    CASE mode = "ZP" -> 3
      [] mode \in {"ZPX", "ZPY", "ABS"} -> 4
      [] mode \in {"ABSX", "ABSY"} -> 5
      [] mode \in {"INDX", "INDY"} -> 6

\* the cycles a read-modify-write handler returns
rmw_cycles(mode) ==
    CASE mode = "ZP" -> 5
      [] mode \in {"ZPX", "ABS"} -> 6
      [] mode = "ABSX" -> 7

---------------------------------------------------------------------------
(* cpu.c: opcode handlers, one operator for the handlers of a mnemonic.    *)
(* Each takes E (the machine after ea) and the mode, and returns [m, v]:   *)
(* the machine and the cycle count the handler returns.                    *)

handle_LDA(E, mode) ==
    LET With(o) == [m |-> SET_FLAGS([o.m EXCEPT !.cpu.A = o.v], o.v),
                    v |-> read_cycles(mode) + E.crossed]
    IN  With(cpu_read(E.m, E.addr))

handle_LDX(E, mode) ==
    LET With(o) == [m |-> SET_FLAGS([o.m EXCEPT !.cpu.X = o.v], o.v),
                    v |-> read_cycles(mode) + E.crossed]
    IN  With(cpu_read(E.m, E.addr))

handle_LDY(E, mode) ==
    LET With(o) == [m |-> SET_FLAGS([o.m EXCEPT !.cpu.Y = o.v], o.v),
                    v |-> read_cycles(mode) + E.crossed]
    IN  With(cpu_read(E.m, E.addr))

handle_STA(E, mode) ==
    [m |-> cpu_write(E.m, E.addr, E.m.cpu.A), v |-> store_cycles(mode)]

handle_STX(E, mode) ==
    [m |-> cpu_write(E.m, E.addr, E.m.cpu.X), v |-> store_cycles(mode)]

handle_STY(E, mode) ==
    [m |-> cpu_write(E.m, E.addr, E.m.cpu.Y), v |-> store_cycles(mode)]

\* handle_TAX, handle_TAY, handle_TXA, handle_TYA, handle_TSX: register
\* from ("A", "X", "Y" or "SP") is copied to register to, Z and N follow
handle_transfer(M, from, to) ==
    [m |-> SET_FLAGS([M EXCEPT !.cpu[to] = M.cpu[from]], M.cpu[from]), v |-> 2]

handle_TXS(M) == [m |-> [M EXCEPT !.cpu.SP = M.cpu.X], v |-> 2]

handle_PHA(M) == [m |-> push_byte(M, M.cpu.A), v |-> 3]

handle_PHP(M) ==
    [m |-> push_byte(M, BOr(BOr(M.cpu.P, FLAG_B), FLAG_U)), v |-> 3]

handle_PLA(M) ==
    LET With(r) == [m |-> SET_FLAGS([r.m EXCEPT !.cpu.A = r.v], r.v), v |-> 4]
    IN  With(pop_byte(M))

\* the flags PLP and RTI copy from the popped byte: N | V | D | Z | C
pop_mask == BOr(BOr(BOr(BOr(FLAG_N, FLAG_V), FLAG_D), FLAG_Z), FLAG_C)

\* bits 4 and 5 copied from the popped byte with the five flags
restore_flags_with_b_u(P, flags) ==
    BOr(BAnd(P, Not8(BOr(pop_mask, \h30))), BAnd(flags, BOr(pop_mask, \h30)))

\* the popped byte copied whole: c->P = flags
restore_flags_whole(P, flags) == flags

\* c->P = (c->P & ~mask) | (flags & mask)
restore_flags(P, flags) ==
    BOr(BAnd(P, Not8(pop_mask)), BAnd(flags, pop_mask))

\* interupt_disable = new_i_flag ? 1 : 0, when the popped I differs from P's
popped_disable(M, flags) ==
    IF BAnd(M.cpu.P, FLAG_I) # BAnd(flags, FLAG_I)
    THEN [M EXCEPT !.idis = IF BAnd(flags, FLAG_I) # 0 THEN 1 ELSE 0]
    ELSE M

\* the popped I bit is scheduled: interupt_disable and the delayed bit
handle_PLP(M) ==
    LET With(r) ==
            [m |-> [popped_disable(r.m, r.v) EXCEPT
                       !.cpu.P = restore_flags(@, r.v),
                       !.cpu.interupt_flags =
                           IF BAnd(r.m.cpu.P, FLAG_I) # BAnd(r.v, FLAG_I)
                           THEN BOr(@, DELAYED_INTERRUPT_DISABLE) ELSE @],
             v |-> 4]
    IN  With(pop_byte(M))

handle_AND(E, mode) ==
    LET With(o) == [m |-> SET_FLAGS([o.m EXCEPT !.cpu.A = BAnd(@, o.v)],
                                    BAnd(o.m.cpu.A, o.v)),
                    v |-> read_cycles(mode) + E.crossed]
    IN  With(cpu_read(E.m, E.addr))

handle_ORA(E, mode) ==
    LET With(o) == [m |-> SET_FLAGS([o.m EXCEPT !.cpu.A = BOr(@, o.v)],
                                    BOr(o.m.cpu.A, o.v)),
                    v |-> read_cycles(mode) + E.crossed]
    IN  With(cpu_read(E.m, E.addr))

handle_EOR(E, mode) ==
    LET With(o) == [m |-> SET_FLAGS([o.m EXCEPT !.cpu.A = BXor(@, o.v)],
                                    BXor(o.m.cpu.A, o.v)),
                    v |-> read_cycles(mode) + E.crossed]
    IN  With(cpu_read(E.m, E.addr))

handle_BIT(E, mode) ==
    LET With(o) ==
            [m |-> SetP(SetP(SetP(o.m, FLAG_Z, BAnd(o.m.cpu.A, o.v) = 0),
                             FLAG_N, Test(o.v, \h80)),
                        FLAG_V, Test(o.v, \h40)),
             v |-> read_cycles(mode)]
    IN  With(cpu_read(E.m, E.addr))

\* the flags after an addition that left a in A: res is the 16-bit sum,
\* old_a the accumulator before, w the value the overflow test combines
arith_flags(M, a, carry_out, old_a, w) ==
    SetP(SetP(SetP(SetP([M EXCEPT !.cpu.A = a], FLAG_C, carry_out),
                   FLAG_Z, a = 0),
              FLAG_V, Test(BAnd(BXor(old_a, a), w), \h80)),
         FLAG_N, Test(a, \h80))

\* adc without the carry in: res = A + v
adc_carry_in_dropped(M, v) ==
    LET Sum(res) ==
            arith_flags(M, U8(res), res > \hFF, M.cpu.A, BXor(v, U8(res)))
    IN  Sum(M.cpu.A + v)

\* res = A + v + carry; V from (old_a ^ A) & (v ^ A) & 0x80
adc(M, v) ==
    LET Sum(res) ==
            arith_flags(M, U8(res), res > \hFF, M.cpu.A, BXor(v, U8(res)))
    IN  Sum(M.cpu.A + v + get_flag(M.cpu.P, FLAG_C))

handle_ADC(E, mode) ==
    LET With(o) == [m |-> adc(o.m, o.v), v |-> read_cycles(mode) + E.crossed]
    IN  With(cpu_read(E.m, E.addr))

\* c->A = c->A + ~v + carry in int arithmetic (~v is -v - 1), truncated to
\* 8 bits; C from (uint16_t) A + (uint16_t) (~v) + carry > 0xFF, where
\* (uint16_t) (~v) is 0xFFFF - v; V from (old ^ A) & (old ^ ~v) & 0x80
sbc(M, v) ==
    LET Res(a) ==
            arith_flags(M, a,
                M.cpu.A + (\hFFFF - v) + get_flag(M.cpu.P, FLAG_C) > \hFF,
                M.cpu.A, BXor(M.cpu.A, \hFF - v))
    IN  Res((M.cpu.A + (-v - 1) + get_flag(M.cpu.P, FLAG_C)) % 256)

handle_SBC(E, mode) ==
    LET With(o) == [m |-> sbc(o.m, o.v), v |-> read_cycles(mode) + E.crossed]
    IN  With(cpu_read(E.m, E.addr))

\* C = reg >= v, Z = reg == v, N = reg & 0x80
compare(M, reg, v) ==
    SetP(SetP(SetP(M, FLAG_C, reg >= v), FLAG_Z, reg = v),
         FLAG_N, Test(reg, \h80))

handle_CMP(E, mode) ==
    LET With(o) == [m |-> compare(o.m, o.m.cpu.A, o.v),
                    v |-> read_cycles(mode) + E.crossed]
    IN  With(cpu_read(E.m, E.addr))

handle_CPX(E, mode) ==
    LET With(o) == [m |-> compare(o.m, o.m.cpu.X, o.v), v |-> read_cycles(mode)]
    IN  With(cpu_read(E.m, E.addr))

handle_CPY(E, mode) ==
    LET With(o) == [m |-> compare(o.m, o.m.cpu.Y, o.v), v |-> read_cycles(mode)]
    IN  With(cpu_read(E.m, E.addr))

\* a read-modify-write that writes the new value only
rmw_write_once(M, addr, old, new, dummy) == cpu_write(M, addr, new)

\* the writes of a read-modify-write handler: the original value first
\* where the handler writes it back (dummy), then the new value
rmw_write(M, addr, old, new, dummy) ==
    cpu_write(IF dummy THEN cpu_write(M, addr, old) ELSE M, addr, new)

\* INC and DEC (delta 1 or -1): only the _ABSX handlers write the original
inc_dec(E, mode, delta) ==
    LET With(o) ==
            [m |-> SET_FLAGS(rmw_write(o.m, E.addr, o.v, U8(o.v + delta),
                                       mode = "ABSX"),
                             U8(o.v + delta)),
             v |-> rmw_cycles(mode)]
    IN  With(cpu_read(E.m, E.addr))

handle_INC(E, mode) == inc_dec(E, mode, 1)

handle_DEC(E, mode) == inc_dec(E, mode, -1)

\* handle_INX, handle_INY, handle_DEX, handle_DEY: reg++ or reg--
handle_step(M, reg, delta) ==
    [m |-> SET_FLAGS([M EXCEPT !.cpu[reg] = U8(@ + delta)],
                     U8(M.cpu[reg] + delta)),
     v |-> 2]

\* a shift or rotate: old becomes new, C is set from old & carry_mask; on
\* the accumulator (_ACC) or on memory with both writes
shift_result(E, mode, old, new, carry_mask, cycles) ==
    [m |-> SET_FLAGS(SetP(IF mode = "ACC" THEN [E.m EXCEPT !.cpu.A = new]
                          ELSE rmw_write(E.m, E.addr, old, new, TRUE),
                          FLAG_C, Test(old, carry_mask)),
                     new),
     v |-> IF mode = "ACC" THEN 2 ELSE cycles]

\* the value a shift works on: A, or the byte read at the effective address
shift_operand(E, mode) ==
    IF mode = "ACC" THEN [m |-> E.m, v |-> E.m.cpu.A]
    ELSE cpu_read(E.m, E.addr)

shifted(E, o) == [m |-> o.m, addr |-> E.addr, crossed |-> E.crossed]

handle_ASL(E, mode) ==
    LET With(o) == shift_result(shifted(E, o), mode, o.v, U8(o.v * 2), \h80,
                         rmw_cycles(mode))
    IN  With(shift_operand(E, mode))

\* handle_LSR_ZPX takes the carry from bit 7
handle_LSR(E, mode) ==
    LET With(o) == shift_result(shifted(E, o), mode, o.v, Shr(o.v, 1),
                         IF mode = "ZPX" THEN \h80 ELSE \h01,
                         rmw_cycles(mode))
    IN  With(shift_operand(E, mode))

handle_ROL(E, mode) ==
    LET With(o) == shift_result(shifted(E, o), mode, o.v,
                         U8(BOr(o.v * 2, get_flag(o.m.cpu.P, FLAG_C))), \h80,
                         rmw_cycles(mode))
    IN  With(shift_operand(E, mode))

\* handle_ROR_ACC takes the carry from bit 7; handle_ROR_ZPX returns 5
handle_ROR(E, mode) ==
    LET With(o) == shift_result(shifted(E, o), mode, o.v,
                         BOr(Shr(o.v, 1),
                             IF get_flag(o.m.cpu.P, FLAG_C) # 0 THEN \h80 ELSE 0),
                         IF mode = "ACC" THEN \h80 ELSE \h01,
                         IF mode = "ZPX" THEN 5 ELSE rmw_cycles(mode))
    IN  With(shift_operand(E, mode))

handle_JMP_ABS(E) == [m |-> [E.m EXCEPT !.cpu.PC = E.addr], v |-> 3]

\* E.addr is pointer_addr; the high byte comes from the start of the page
\* when the pointer is the last byte of a page
\* JMP (ptr) reading the high byte from ptr + 1 in every case
handle_JMP_IND_no_wrap(E) ==
    LET With(r) == [m |-> [r.m EXCEPT !.cpu.PC = r.v], v |-> 5]
    IN  With(read_word(E.m, E.addr, U16(E.addr + 1)))

handle_JMP_IND(E) ==
    LET With(r) == [m |-> [r.m EXCEPT !.cpu.PC = r.v], v |-> 5]
    IN  With(read_word(E.m, E.addr,
                       IF BAnd(E.addr, \h00FF) = \h00FF
                       THEN BAnd(E.addr, \hFF00) ELSE U16(E.addr + 1)))

handle_JSR_ABS(E) ==
    [m |-> [push_word(E.m, U16(E.m.cpu.PC - 1)) EXCEPT !.cpu.PC = E.addr],
     v |-> 6]

\* RTS returning to the popped address itself
handle_RTS_no_increment(M) ==
    LET With(r) == [m |-> [r.m EXCEPT !.cpu.PC = r.v], v |-> 6]
    IN  With(pop_word(M))

handle_RTS(M) ==
    LET With(r) == [m |-> [r.m EXCEPT !.cpu.PC = U16(r.v + 1)], v |-> 6]
    IN  With(pop_word(M))

\* a taken branch returning 3 whatever the page of its target
handle_branch_no_page_cycle(E, condition) ==
    LET With(f) ==
            IF condition
            THEN [m |-> [f.m EXCEPT !.cpu.PC = U16(@ + int8(f.v))], v |-> 3]
            ELSE [m |-> f.m, v |-> 2]
    IN  With(cpu_read(E.m, E.addr))

\* E.m is the machine after the offset's fetch, E.addr the offset's address
handle_branch(E, condition) ==
    LET With(f) ==
            IF condition
            THEN [m |-> [f.m EXCEPT !.cpu.PC = U16(@ + int8(f.v))],
                  v |-> 3 + (IF BAnd(E.m.cpu.PC, \hFF00)
                                  # BAnd(U16(E.m.cpu.PC + int8(f.v)), \hFF00)
                             THEN 1 ELSE 0)]
            ELSE [m |-> f.m, v |-> 2]
    IN  With(cpu_read(E.m, E.addr))

\* handle_BCC .. handle_BVS: the branch is taken when flag f has value want
handle_Bxx(E, f, want) == handle_branch(E, get_flag(E.m.cpu.P, f) = want)

\* handle_CLC, handle_CLD, handle_CLV, handle_SEC, handle_SED
handle_flag(M, f, v) == [m |-> SetP(M, f, v), v |-> 2]

\* CLI clearing the I bit of P at once instead of scheduling the change
handle_CLI_immediate(M) ==
    [m |-> [SetP(M, FLAG_I, FALSE) EXCEPT !.idis = 0], v |-> 2]

handle_CLI(M) ==
    [m |-> [M EXCEPT !.idis = 0,
                     !.cpu.interupt_flags = BOr(@, DELAYED_INTERRUPT_DISABLE)],
     v |-> 2]

handle_SEI(M) ==
    [m |-> [M EXCEPT !.idis = 1,
                     !.cpu.interupt_flags = BOr(@, DELAYED_INTERRUPT_DISABLE)],
     v |-> 2]

\* BRK without the padding byte: the return address is p + 1
handle_BRK_no_padding(M) ==
    LET With(r) == [m |-> [r.m EXCEPT !.cpu.PC = r.v], v |-> 7]
    IN  With(read_word(
                 SetP(push_byte(push_word(M, M.cpu.PC),
                                BOr(BOr(M.cpu.P, FLAG_B), FLAG_U)),
                      FLAG_I, TRUE),
                 \hFFFE, \hFFFF))

handle_BRK(M) ==
    LET With(r) == [m |-> [r.m EXCEPT !.cpu.PC = r.v], v |-> 7]
    IN  With(read_word(
                 SetP(push_byte(push_word([M EXCEPT !.cpu.PC = U16(@ + 1)],
                                          U16(M.cpu.PC + 1)),
                                BOr(BOr(M.cpu.P, FLAG_B), FLAG_U)),
                      FLAG_I, TRUE),
                 \hFFFE, \hFFFF))

handle_NOP(M) == [m |-> M, v |-> 2]

\* the popped I bit goes to the static interupt_disable only: the live P
\* keeps its I bit and no delayed change is scheduled
handle_RTI(M) ==
    LET Flags(r) ==
            LET With(w) == [m |-> [w.m EXCEPT !.cpu.PC = w.v], v |-> 6]
            IN  With(pop_word([popped_disable(r.m, r.v) EXCEPT
                                  !.cpu.P = restore_flags(@, r.v)]))
    IN  Flags(pop_byte(M))

---------------------------------------------------------------------------
(* The dispatch of cpu_step.  itable.h gives each opcode of opcodes.h the  *)
(* handler of its name (i_table[OC_LDA_IMM] is handle_LDA_IMM); an opcode  *)
(* outside opcodes.h has no handler.                                       *)

\* every opcode of opcodes.h
Opcodes ==
    {\hA9, \hA5, \hB5, \hAD, \hBD, \hB9, \hA1, \hB1, \hA2, \hA6,
     \hB6, \hAE, \hBE, \hA0, \hA4, \hB4, \hAC, \hBC, \h85, \h95,
     \h8D, \h9D, \h99, \h81, \h91, \h86, \h96, \h8E, \h84, \h94,
     \h8C, \hAA, \hA8, \h8A, \h98, \hBA, \h9A, \h48, \h08, \h68,
     \h28, \h29, \h25, \h35, \h2D, \h3D, \h39, \h21, \h31, \h09,
     \h05, \h15, \h0D, \h1D, \h19, \h01, \h11, \h49, \h45, \h55,
     \h4D, \h5D, \h59, \h41, \h51, \h24, \h2C, \h69, \h65, \h75,
     \h6D, \h7D, \h79, \h61, \h71, \hE9, \hE5, \hF5, \hED, \hFD,
     \hF9, \hE1, \hF1, \hC9, \hC5, \hD5, \hCD, \hDD, \hD9, \hC1,
     \hD1, \hE0, \hE4, \hEC, \hC0, \hC4, \hCC, \hE6, \hF6, \hEE,
     \hFE, \hE8, \hC8, \hC6, \hD6, \hCE, \hDE, \hCA, \h88, \h0A,
     \h06, \h16, \h0E, \h1E, \h4A, \h46, \h56, \h4E, \h5E, \h2A,
     \h26, \h36, \h2E, \h3E, \h6A, \h66, \h76, \h6E, \h7E, \h4C,
     \h6C, \h20, \h60, \h90, \hB0, \hF0, \h30, \hD0, \h10, \h50,
     \h70, \h18, \hD8, \h58, \hB8, \h38, \hF8, \h78, \h00, \hEA,
     \h40}

\* the addressing mode in the name of the opcode: OC_LDA_ZPX is "ZPX"; an
\* opcode without a suffix is implied ("IMP") or a branch ("REL")
AddrMode(opcode) ==
    CASE opcode \in {\hA9, \hA2, \hA0, \h29, \h09, \h49, \h69, \hE9, \hC9, \hE0,
                     \hC0} -> "IMM"
      [] opcode \in {\hA5, \hA6, \hA4, \h85, \h86, \h84, \h25, \h05, \h45, \h24,
                     \h65, \hE5, \hC5, \hE4, \hC4, \hE6, \hC6, \h06, \h46, \h26,
                     \h66} -> "ZP"
      [] opcode \in {\hB5, \hB4, \h95, \h94, \h35, \h15, \h55, \h75, \hF5, \hD5,
                     \hF6, \hD6, \h16, \h56, \h36, \h76} -> "ZPX"
      [] opcode \in {\hAD, \hAE, \hAC, \h8D, \h8E, \h8C, \h2D, \h0D, \h4D, \h2C,
                     \h6D, \hED, \hCD, \hEC, \hCC, \hEE, \hCE, \h0E, \h4E, \h2E,
                     \h6E, \h4C, \h20} -> "ABS"
      [] opcode \in {\hBD, \hBC, \h9D, \h3D, \h1D, \h5D, \h7D, \hFD, \hDD, \hFE,
                     \hDE, \h1E, \h5E, \h3E, \h7E} -> "ABSX"
      [] opcode \in {\hB9, \hBE, \h99, \h39, \h19, \h59, \h79, \hF9, \hD9} -> "ABSY"
      [] opcode \in {\hA1, \h81, \h21, \h01, \h41, \h61, \hE1, \hC1} -> "INDX"
      [] opcode \in {\hB1, \h91, \h31, \h11, \h51, \h71, \hF1, \hD1} -> "INDY"
      [] opcode \in {\hB6, \h96} -> "ZPY"
      [] opcode \in {\hAA, \hA8, \h8A, \h98, \hBA, \h9A, \h48, \h08, \h68, \h28,
                     \hE8, \hC8, \hCA, \h88, \h60, \h18, \hD8, \h58, \hB8, \h38,
                     \hF8, \h78, \h00, \hEA, \h40} -> "IMP"
      [] opcode \in {\h0A, \h4A, \h2A, \h6A} -> "ACC"
      [] opcode \in {\h6C} -> "IND"
      [] opcode \in {\h90, \hB0, \hF0, \h30, \hD0, \h10, \h50, \h70} -> "REL"

\* i_table[opcode] applied after the operand fetch: E = ea(M, AddrMode(opcode))
i_table(E, opcode) ==
    CASE opcode \in {\hA9, \hA5, \hB5, \hAD, \hBD, \hB9, \hA1, \hB1} ->
             handle_LDA(E, AddrMode(opcode))
      [] opcode \in {\hA2, \hA6, \hB6, \hAE, \hBE} ->
             handle_LDX(E, AddrMode(opcode))
      [] opcode \in {\hA0, \hA4, \hB4, \hAC, \hBC} ->
             handle_LDY(E, AddrMode(opcode))
      [] opcode \in {\h85, \h95, \h8D, \h9D, \h99, \h81, \h91} ->
             handle_STA(E, AddrMode(opcode))
      [] opcode \in {\h86, \h96, \h8E} ->
             handle_STX(E, AddrMode(opcode))
      [] opcode \in {\h84, \h94, \h8C} ->
             handle_STY(E, AddrMode(opcode))
      [] opcode = \hAA ->
             handle_transfer(E.m, "A", "X")
      [] opcode = \hA8 ->
             handle_transfer(E.m, "A", "Y")
      [] opcode = \h8A ->
             handle_transfer(E.m, "X", "A")
      [] opcode = \h98 ->
             handle_transfer(E.m, "Y", "A")
      [] opcode = \hBA ->
             handle_transfer(E.m, "SP", "X")
      [] opcode = \h9A ->
             handle_TXS(E.m)
      [] opcode = \h48 ->
             handle_PHA(E.m)
      [] opcode = \h08 ->
             handle_PHP(E.m)
      [] opcode = \h68 ->
             handle_PLA(E.m)
      [] opcode = \h28 ->
             handle_PLP(E.m)
      [] opcode \in {\h29, \h25, \h35, \h2D, \h3D, \h39, \h21, \h31} ->
             handle_AND(E, AddrMode(opcode))
      [] opcode \in {\h09, \h05, \h15, \h0D, \h1D, \h19, \h01, \h11} ->
             handle_ORA(E, AddrMode(opcode))
      [] opcode \in {\h49, \h45, \h55, \h4D, \h5D, \h59, \h41, \h51} ->
             handle_EOR(E, AddrMode(opcode))
      [] opcode \in {\h24, \h2C} ->
             handle_BIT(E, AddrMode(opcode))
      [] opcode \in {\h69, \h65, \h75, \h6D, \h7D, \h79, \h61, \h71} ->
             handle_ADC(E, AddrMode(opcode))
      [] opcode \in {\hE9, \hE5, \hF5, \hED, \hFD, \hF9, \hE1, \hF1} ->
             handle_SBC(E, AddrMode(opcode))
      [] opcode \in {\hC9, \hC5, \hD5, \hCD, \hDD, \hD9, \hC1, \hD1} ->
             handle_CMP(E, AddrMode(opcode))
      [] opcode \in {\hE0, \hE4, \hEC} ->
             handle_CPX(E, AddrMode(opcode))
      [] opcode \in {\hC0, \hC4, \hCC} ->
             handle_CPY(E, AddrMode(opcode))
      [] opcode \in {\hE6, \hF6, \hEE, \hFE} ->
             handle_INC(E, AddrMode(opcode))
      [] opcode = \hE8 ->
             handle_step(E.m, "X", 1)
      [] opcode = \hC8 ->
             handle_step(E.m, "Y", 1)
      [] opcode \in {\hC6, \hD6, \hCE, \hDE} ->
             handle_DEC(E, AddrMode(opcode))
      [] opcode = \hCA ->
             handle_step(E.m, "X", -1)
      [] opcode = \h88 ->
             handle_step(E.m, "Y", -1)
      [] opcode \in {\h0A, \h06, \h16, \h0E, \h1E} ->
             handle_ASL(E, AddrMode(opcode))
      [] opcode \in {\h4A, \h46, \h56, \h4E, \h5E} ->
             handle_LSR(E, AddrMode(opcode))
      [] opcode \in {\h2A, \h26, \h36, \h2E, \h3E} ->
             handle_ROL(E, AddrMode(opcode))
      [] opcode \in {\h6A, \h66, \h76, \h6E, \h7E} ->
             handle_ROR(E, AddrMode(opcode))
      [] opcode = \h4C ->
             handle_JMP_ABS(E)
      [] opcode = \h6C ->
             handle_JMP_IND(E)
      [] opcode = \h20 ->
             handle_JSR_ABS(E)
      [] opcode = \h60 ->
             handle_RTS(E.m)
      [] opcode = \h90 ->
             handle_Bxx(E, FLAG_C, 0)
      [] opcode = \hB0 ->
             handle_Bxx(E, FLAG_C, 1)
      [] opcode = \hF0 ->
             handle_Bxx(E, FLAG_Z, 1)
      [] opcode = \h30 ->
             handle_Bxx(E, FLAG_N, 1)
      [] opcode = \hD0 ->
             handle_Bxx(E, FLAG_Z, 0)
      [] opcode = \h10 ->
             handle_Bxx(E, FLAG_N, 0)
      [] opcode = \h50 ->
             handle_Bxx(E, FLAG_V, 0)
      [] opcode = \h70 ->
             handle_Bxx(E, FLAG_V, 1)
      [] opcode = \h18 ->
             handle_flag(E.m, FLAG_C, FALSE)
      [] opcode = \hD8 ->
             handle_flag(E.m, FLAG_D, FALSE)
      [] opcode = \h58 ->
             handle_CLI(E.m)
      [] opcode = \hB8 ->
             handle_flag(E.m, FLAG_V, FALSE)
      [] opcode = \h38 ->
             handle_flag(E.m, FLAG_C, TRUE)
      [] opcode = \hF8 ->
             handle_flag(E.m, FLAG_D, TRUE)
      [] opcode = \h78 ->
             handle_SEI(E.m)
      [] opcode = \h00 ->
             handle_BRK(E.m)
      [] opcode = \hEA ->
             handle_NOP(E.m)
      [] opcode = \h40 ->
             handle_RTI(E.m)

\* lines 226-229 of cpu_step: the delayed change of I
commit_delayed(M) ==
    IF Test(M.cpu.interupt_flags, DELAYED_INTERRUPT_DISABLE)
    THEN [SetP(M, FLAG_I, M.idis # 0) EXCEPT !.cpu.interupt_flags =
              BAnd(@, Not8(DELAYED_INTERRUPT_DISABLE))]
    ELSE M

\* whether cpu_step, after the commit, takes the interrupt path
interrupt_due(M) ==
    Test(M.cpu.interupt_flags, BOr(INTERRUPT_NMI, INTERRUPT_IRQ))

\* cpu_step taking a byte without a handler for a two-cycle no-operation
cpu_step_unknown_as_nop(M) ==
    LET Committed(M1) ==
            IF interrupt_due(M1)
            THEN [m |-> handle_interupt(M1), v |-> 7,
                  kind |-> "interrupt", opcode |-> -1, checked |-> M1.cpu]
            ELSE LET Fetched(f) ==
                         IF f.v \notin Opcodes
                         THEN [m |-> f.m, v |-> 2, kind |-> "instr",
                               opcode |-> f.v, checked |-> M1.cpu]
                         ELSE LET Handled(h) ==
                                      [m |-> [h.m EXCEPT !.cpu.cycles = @ + h.v],
                                       v |-> h.v, kind |-> "instr",
                                       opcode |-> f.v, checked |-> M1.cpu]
                              IN  Handled(i_table(ea(f.m, AddrMode(f.v)), f.v))
                 IN  Fetched(fetch_byte(M1))
    IN  Committed(commit_delayed(M))

\* cpu_step: [m, v, kind, opcode, checked].  kind tells the path taken:
\* "interrupt" (opcode -1), "instr", or "abort" (abort_e: the process
\* exits); checked is the CPU at the interrupt check, after the commit
\* (history only).
cpu_step(M) ==
    LET Committed(M1) ==
            IF interrupt_due(M1)
            THEN [m |-> handle_interupt(M1), v |-> 7,
                  kind |-> "interrupt", opcode |-> -1, checked |-> M1.cpu]
            ELSE LET Fetched(f) ==
                         IF f.v \notin Opcodes
                         THEN [m |-> f.m, v |-> 0, kind |-> "abort",
                               opcode |-> f.v, checked |-> M1.cpu]
                         ELSE LET Handled(h) ==
                                      [m |-> [h.m EXCEPT !.cpu.cycles = @ + h.v],
                                       v |-> h.v, kind |-> "instr",
                                       opcode |-> f.v, checked |-> M1.cpu]
                              IN  Handled(i_table(ea(f.m, AddrMode(f.v)), f.v))
                 IN  Fetched(fetch_byte(M1))
    IN  Committed(commit_delayed(M))

---------------------------------------------------------------------------
(* ppu.c: the clock                                                        *)

nes_palette ==
    <<\h757575, \h271B8F, \h0000AB, \h47009F, \h8F0077, \hAB0013, \hA70000, \h7F0B00,
      \h432F00, \h004700, \h005100, \h003F17, \h1B3F5F, \h000000, \h000000, \h000000,
      \hBCBCBC, \h0073EF, \h233BEF, \h8300F3, \hBF00BF, \hE7005B, \hDB2B00, \hCB4F0F,
      \h8B7300, \h009700, \h00AB00, \h00933B, \h00838B, \h000000, \h000000, \h000000,
      \hFFFFFF, \h3FBFFF, \h5F73FF, \hA78BFD, \hF77BFF, \hFF77B7, \hFF7763, \hFF9B3B,
      \hF3BF3F, \h83D313, \h4FDF4B, \h58F898, \h00EBDB, \h000000, \h000000, \h000000,
      \hFFFFFF, \hABE7FF, \hC7D7FF, \hD7CBFF, \hFFC7FF, \hFFC7DB, \hFFBFB3, \hFFDBAB,
      \hFFE7A3, \hE3FFA3, \hABF3BF, \hB3FFCF, \h9FFFF3, \h000000, \h000000, \h000000>>

SCREEN_WIDTH == 256
SCREEN_HEIGHT == 240

\* 0xFF000000 | nes_palette[index & 0x3F].  A framebuffer word is 0 or has
\* alpha 0xFF: the alpha byte is kept as bit 24, the RGB bits as they are.
argb(index) == \h1000000 + nes_palette[BAnd(index, \h3F) + 1]

\* ((plane1 >> bit) & 1) << 1 | ((plane0 >> bit) & 1)
plane_bits(plane0, plane1, bit) ==
    2 * (Shr(plane1, bit) % 2) + (Shr(plane0, bit) % 2)

render_background_pixel(M) ==
    LET p == M.ppu
        x == p.cycle - 1
        y == p.scanline
        tile_x == x \div 8
        tile_y == y \div 8
        nametable_addr == \h2000
        tile_index == ppu_vram_read_byte(M, nametable_addr + tile_y * 32 + tile_x)
        attr_byte  == ppu_vram_read_byte(M,
                          nametable_addr + \h03C0 + (tile_y \div 4) * 8 + (tile_x \div 4))
        shift == ((tile_y % 4) \div 2) * 4 + ((tile_x % 4) \div 2) * 2
        palette_bits == BAnd(Shr(attr_byte, shift), 3)
        fine_y == y % 8
        pattern_base == IF Test(p.ppuctrl, \h10) THEN \h1000 ELSE 0
        tile_pattern_addr == pattern_base + tile_index * 16 + fine_y
        plane0 == ppu_vram_read_byte(M, tile_pattern_addr)
        plane1 == ppu_vram_read_byte(M, tile_pattern_addr + 8)
        pixel_bit == plane_bits(plane0, plane1, 7 - (x % 8))
        colour == IF pixel_bit = 0
                  THEN argb(ppu_vram_read_byte(M, \h3F00))
                  ELSE argb(ppu_vram_read_byte(M,
                                \h3F00 + Shl(palette_bits, 2) + pixel_bit))
    IN  IF x < 0 \/ x >= SCREEN_WIDTH \/ y < 0 \/ y >= SCREEN_HEIGHT
        THEN M
        ELSE [M EXCEPT !.fb = Put(@, y * SCREEN_WIDTH + x, colour)]

\* the loop of render_sprite_pixel from sprite i on
RECURSIVE sprite_scan(_, _, _)
sprite_scan(M, i, bg_transparent) ==
    IF i >= 64 THEN M
    ELSE
    LET p == M.ppu
        x == p.cycle - 1
        y == p.scanline
        sprite_height == IF Test(p.ppuctrl, \h20) THEN 16 ELSE 8
        sprite_pattern_base == IF Test(p.ppuctrl, \h08) THEN \h1000 ELSE 0
        oam_index  == i * 4
        sprite_y   == Get(M.oam, oam_index)
        tile_index == Get(M.oam, oam_index + 1)
        attributes == Get(M.oam, oam_index + 2)
        sprite_x   == Get(M.oam, oam_index + 3)
        sprite_row == y - (sprite_y + 1)
        sprite_col == x - sprite_x
        palette_num == BAnd(attributes, 3)
        priority == Test(attributes, \h20)
        flip_h   == Test(attributes, \h40)
        flip_v   == Test(attributes, \h80)
        row0 == IF flip_v THEN sprite_height - 1 - sprite_row ELSE sprite_row
        pattern_addr ==
            IF sprite_height = 16
            THEN LET pattern_table == IF Test(tile_index, 1) THEN \h1000 ELSE 0
                     tile_num == BAnd(tile_index, \hFE)
                 IN  IF row0 >= 8
                     THEN pattern_table + U8(tile_num + 1) * 16 + (row0 - 8)
                     ELSE pattern_table + tile_num * 16 + row0
            ELSE sprite_pattern_base + tile_index * 16 + row0
        plane0 == ppu_vram_read_byte(M, U16(pattern_addr))
        plane1 == ppu_vram_read_byte(M, U16(pattern_addr + 8))
        bit == IF flip_h THEN sprite_col ELSE 7 - sprite_col
        pixel_value == plane_bits(plane0, plane1, bit)
        palette_addr == \h3F10 + palette_num * 4 + pixel_value
        colour == argb(ppu_vram_read_byte(M, palette_addr))
        drawn == [M EXCEPT !.fb = Put(@, y * SCREEN_WIDTH + x, colour)]
    IN  IF sprite_row < 0 \/ sprite_row >= sprite_height
           \/ sprite_col < 0 \/ sprite_col >= 8
           \/ (priority /\ ~bg_transparent)
        THEN sprite_scan(M, i + 1, bg_transparent)
        ELSE IF pixel_value = 0
        THEN sprite_scan(M, i + 1, bg_transparent)
        ELSE IF i = 0 /\ ~bg_transparent /\ x # 255
        THEN [drawn EXCEPT !.ppu.ppustatus = BOr(@, \h40)]
        ELSE drawn

render_sprite_pixel(M) ==
    LET x == M.ppu.cycle - 1
        y == M.ppu.scanline
        bg_pixel == Get(M.fb, y * SCREEN_WIDTH + x)
        bg_transparent == bg_pixel = argb(ppu_vram_read_byte(M, \h3F00))
    IN  IF x < 0 \/ x >= SCREEN_WIDTH \/ y < 0 \/ y >= SCREEN_HEIGHT
        THEN M
        ELSE sprite_scan(M, 0, bg_transparent)

\* the new vram_addr of fetch_background_data
fetch_background_data(M) ==
    LET p  == M.ppu
        v0 == p.vram_addr
        v1 == IF BAnd(p.cycle, 7) = 0
              THEN IF BAnd(v0, \h001F) = 31
                   THEN BXor(BAnd(v0, Not16(\h001F)), \h0400)
                   ELSE U16(v0 + 1)
              ELSE v0
        v2 == IF p.cycle = 256
              THEN IF BAnd(v1, \h7000) # \h7000
                   THEN U16(v1 + \h1000)
                   ELSE LET w  == BAnd(v1, Not16(\h7000))
                            y  == Shr(BAnd(w, \h03E0), 5)
                            w1 == IF y = 29 THEN BXor(w, \h0800) ELSE w
                            y1 == IF y = 29 \/ y = 31 THEN 0 ELSE y + 1
                        IN  BOr(BAnd(w1, Not16(\h03E0)), Shl(y1, 5))
              ELSE v1
        v3 == IF p.cycle = 257 /\ Test(p.ppumask, \h08)
              THEN BOr(BAnd(v2, Not16(\h041F)), BAnd(p.temp_addr, \h041F))
              ELSE v2
    IN  [M EXCEPT !.ppu.vram_addr = v3]

ppu_init(M) ==
    [M EXCEPT !.ppu = [ppu_cycles |-> 0, scanline |-> 261, cycle |-> 0,
                       frame_done |-> FALSE, ppustatus |-> \hA0,
                       ppuctrl |-> 0, ppumask |-> 0, oamaddr |-> 0,
                       vram_addr |-> 0, temp_addr |-> 0, fine_x |-> 0,
                       write_toggle |-> FALSE, read_buffer |-> 0,
                       nmi_occurred |-> FALSE],
              !.vram = Empty, !.pal_ram = Empty, !.oam = Empty, !.fb = Empty]

\* lines 62-73: the pre-render scanline
clock_prerender(M) ==
    IF M.ppu.scanline = 261
    THEN IF M.ppu.cycle = 1
         THEN [M EXCEPT !.ppu.ppustatus = BAnd(@, \h1F)]
         ELSE IF M.ppu.cycle = 304 /\ Test(M.ppu.ppumask, \h18)
         THEN [M EXCEPT !.ppu.vram_addr = M.ppu.temp_addr]
         ELSE M
    ELSE M

\* lines 75-95: the visible scanlines, cycles 1-256 drawn, then the fetch
visible_background(M) ==
    IF Test(M.ppu.ppumask, \h08) /\ M.ppu.cycle >= 1 /\ M.ppu.cycle <= 256
    THEN render_background_pixel(M) ELSE M

visible_sprites(M) ==
    IF Test(M.ppu.ppumask, \h10) /\ M.ppu.cycle >= 1 /\ M.ppu.cycle <= 256
    THEN render_sprite_pixel(M) ELSE M

visible_fetch(M) ==
    IF Test(M.ppu.ppumask, \h08)
       /\ (   (M.ppu.cycle >= 1 /\ M.ppu.cycle <= 256)
           \/ (M.ppu.cycle >= 321 /\ M.ppu.cycle <= 336))
    THEN fetch_background_data(M) ELSE M

clock_visible(M) ==
    IF M.ppu.scanline < 240
    THEN visible_fetch(visible_sprites(visible_background(M)))
    ELSE M

\* clock_vblank raising the NMI request whatever PPUCTRL holds
clock_vblank_nmi_always(M) ==
    IF M.ppu.scanline = 241 /\ M.ppu.cycle = 1
    THEN [M EXCEPT !.ppu.ppustatus = BOr(@, \h80), !.ppu.nmi_occurred = TRUE]
    ELSE M

\* lines 97-110: the start of VBlank
clock_vblank(M) ==
    IF M.ppu.scanline = 241 /\ M.ppu.cycle = 1
    THEN [M EXCEPT !.ppu.ppustatus = BOr(@, \h80),
                   !.ppu.nmi_occurred =
                       IF Test(M.ppu.ppuctrl, \h80) THEN TRUE ELSE @]
    ELSE M

\* clock_advance with the scanline ending one dot late
clock_advance_late_wrap(M) ==
    LET cycle == M.ppu.cycle + 1
        wrap  == cycle > 341
        scanline == IF wrap THEN M.ppu.scanline + 1 ELSE M.ppu.scanline
        frame == wrap /\ scanline >= 262
    IN  [M EXCEPT !.ppu.cycle = IF wrap THEN 0 ELSE cycle,
                  !.ppu.ppu_cycles = @ + 1,
                  !.ppu.scanline = IF frame THEN 0 ELSE scanline,
                  !.ppu.frame_done = IF frame THEN TRUE ELSE @]

\* lines 112-125: the counters
clock_advance(M) ==
    LET cycle == M.ppu.cycle + 1
        wrap  == cycle >= 341
        scanline == IF wrap THEN M.ppu.scanline + 1 ELSE M.ppu.scanline
        frame == wrap /\ scanline >= 262
    IN  [M EXCEPT !.ppu.cycle = IF wrap THEN 0 ELSE cycle,
                  !.ppu.ppu_cycles = @ + 1,
                  !.ppu.scanline = IF frame THEN 0 ELSE scanline,
                  !.ppu.frame_done = IF frame THEN TRUE ELSE @]

ppu_clock(M) == clock_advance(clock_vblank(clock_visible(clock_prerender(M))))

---------------------------------------------------------------------------
(* The machine record and the state variables.                             *)

Machine ==
    [cpu |-> cpu, ram |-> ram, idis |-> interupt_disable, ppu |-> ppu,
     vram |-> vram, pal_ram |-> pal_ram, oam |-> oam, fb |-> framebuffer,
     c1 |-> controller1, c2 |-> controller2, cart |-> cart,
     global_ppu |-> main.global_ppu, log |-> <<>>]

\* the variables take the values of machine M
Store(M) ==
    /\ cpu' = M.cpu
    /\ ram' = M.ram
    /\ interupt_disable' = M.idis
    /\ ppu' = M.ppu
    /\ vram' = M.vram
    /\ pal_ram' = M.pal_ram
    /\ oam' = M.oam
    /\ framebuffer' = M.fb
    /\ controller1' = M.c1
    /\ controller2' = M.c2
    /\ cart' = M.cart

\* main.c lines 162-181: INES cart loaded, Controller c1 = {0}, c2 = {0},
\* CPU cpu = {0}, cpu_reset (global_ppu still NULL), ppu_init, global_ppu set
Boot(c) ==
    LET M0 == [cpu |-> [A |-> 0, X |-> 0, Y |-> 0, SP |-> 0, PC |-> 0, P |-> 0,
                        interupt_flags |-> 0, cycles |-> 0],
               ram |-> Empty, idis |-> 0,
               ppu |-> [scanline |-> 0], vram |-> Empty, pal_ram |-> Empty,
               oam |-> Empty, fb |-> Empty,
               c1 |-> ControllerZero, c2 |-> ControllerZero, cart |-> c,
               global_ppu |-> FALSE, log |-> <<>>]
    IN  [ppu_init(cpu_reset(M0)) EXCEPT !.global_ppu = TRUE]

\* the variables after main's construction with cartridge c
Booted(c) ==
    LET M == Boot(c)
    IN  /\ cpu = M.cpu
        /\ ram = M.ram
        /\ interupt_disable = M.idis
        /\ ppu = M.ppu
        /\ vram = M.vram
        /\ pal_ram = M.pal_ram
        /\ oam = M.oam
        /\ framebuffer = M.fb
        /\ controller1 = M.c1
        /\ controller2 = M.c2
        /\ cart = M.cart

\* history of the last operation, for the properties
NoObs == [op |-> "none"]

---------------------------------------------------------------------------
(* Cartridge images.  A 16 KiB NROM image: code at offset 0 (0x8000), the  *)
(* NMI handler at 0x0100 (0x8100), the IRQ/BRK handler at 0x0200 (0x8200), *)
(* the vectors at 0x3FFA-0x3FFF, NOP (0xEA) elsewhere, as in dummy_nes.c.  *)

\* the bytes of sequence code placed from offset at
Place(at, code) == [o \in at .. (at + Len(code) - 1) |-> code[o - at + 1]]

Merge(f, g) ==
    [o \in DOMAIN f \cup DOMAIN g |-> IF o \in DOMAIN g THEN g[o] ELSE f[o]]

Vectors ==
    Place(\h3FFA, <<\h00, \h81, \h00, \h80, \h00, \h82>>)

Image(code, nmi_code, irq_code, mirror) ==
    [prg_rom  |-> Merge(Merge(Merge(Place(0, code), Place(\h0100, nmi_code)),
                              Place(\h0200, irq_code)), Vectors),
     prg_fill |-> \hEA, prg_size |-> 16384,
     chr_rom  |-> Empty, chr_size |-> 8192, mirror |-> mirror]

RECURSIVE Flatten(_)
Flatten(ss) == IF ss = <<>> THEN <<>> ELSE Head(ss) \o Flatten(Tail(ss))

---------------------------------------------------------------------------
(* SpecCpu: the CPU behind its interface (cpu.h): cpu_step and             *)
(* cpu_interrupt called in any order on the machine main constructs, for   *)
(* every program made of ProgLen snippets.                                 *)

ProgLen == 2
MaxCycles == 12
MaxInterrupts == 2

Snippets ==
    {<<\h78>>,                  \* SEI
     <<\h58>>,                  \* CLI
     <<\h28>>,                  \* PLP
     <<\hA9, \h00, \h48>>,      \* LDA #$00 ; PHA
     <<\hA9, \hFF, \h48>>,      \* LDA #$FF ; PHA
     <<\h40>>}                  \* RTI

CpuImages ==
    {Image(Flatten(prog), <<\h40>>, <<\h58, \h40>>, 0) :
        prog \in [1 .. ProgLen -> Snippets]}

InitCpu ==
    /\ \E c \in CpuImages : Booted(c)
    /\ main = [global_ppu |-> TRUE, pc |-> "run", calls |-> 0]
    /\ obs = NoObs

\* what a cpu_step call did: the path, the opcode, the result, the bus
\* accesses, and the CPU as it was at the call (before), at the interrupt
\* check after the commit of a delayed I change (checked), and at the
\* return (after)
StepObs(M, r) ==
    [op |-> "cpu_step", kind |-> r.kind, opcode |-> r.opcode, ret |-> r.v,
     log |-> r.m.log, before |-> M.cpu, checked |-> r.checked,
     after |-> r.m.cpu]

CpuStep ==
    /\ main.pc = "run"
    /\ cpu.cycles < MaxCycles
    /\ LET Stepped(r) ==
               /\ Store(r.m)
               /\ main' = IF r.kind = "abort"
                          THEN [main EXCEPT !.pc = "aborted"] ELSE main
               /\ obs' = StepObs(Machine, r)
       IN  Stepped(cpu_step(Machine))

CpuInterrupt ==
    /\ main.pc = "run"
    /\ main.calls < MaxInterrupts
    /\ \E type \in {INTERRUPT_NMI, INTERRUPT_IRQ} :
           Store(cpu_interrupt(Machine, type))
    /\ main' = [main EXCEPT !.calls = @ + 1]
    /\ UNCHANGED obs

NextCpu == CpuStep \/ CpuInterrupt

SpecCpu == InitCpu /\ [][NextCpu]_vars

---------------------------------------------------------------------------
(* Properties of SpecCpu.  obs describes the last cpu_step call; obs.log   *)
(* holds its bus accesses in order.                                        *)

\* the opcodes of SEI, CLI and PLP
IChangers == {\h78, \h58, \h28}

\* the I value the SEI, CLI or PLP of step o asks for: set, clear, or bit 2
\* of the byte PLP popped (the second bus access, after the opcode fetch)
ScheduledI(o) ==
    CASE o.opcode = \h78 -> TRUE
      [] o.opcode = \h58 -> FALSE
      [] o.opcode = \h28 -> Test(o.log[2].v, FLAG_I)

\* step o executed SEI, CLI or PLP
ChangedI(o) == o.op = "cpu_step" /\ o.kind = "instr" /\ o.opcode \in IChangers

\* C1: a cpu_step that finds, after the commit of a delayed I change, an IRQ
\* latched with I set (and no NMI) does not service it: it executes the next
\* instruction and the IRQ stays pending; a pending NMI is serviced whatever
\* I is.
C1_IrqMaskedByI ==
    /\ (/\ obs.op = "cpu_step"
        /\ Test(obs.checked.interupt_flags, INTERRUPT_IRQ)
        /\ ~Test(obs.checked.interupt_flags, INTERRUPT_NMI)
        /\ Test(obs.checked.P, FLAG_I))
       => (obs.kind # "interrupt" /\ Test(obs.after.interupt_flags, INTERRUPT_IRQ))
    /\ (/\ obs.op = "cpu_step"
        /\ Test(obs.checked.interupt_flags, INTERRUPT_NMI))
       => (obs.kind = "interrupt" /\ ~Test(obs.after.interupt_flags, INTERRUPT_NMI))

\* C2: the cpu_step that executes SEI, CLI or PLP returns with the I bit of
\* P as it was when the instruction began; the next cpu_step call has the
\* asked-for I value in P at its interrupt check, with the delayed-change bit
\* clear, and, when it executes an instruction other than BRK, still has it
\* when it returns.
C2_DelayedInterruptDisable ==
    [][CpuStep =>
         /\ ChangedI(obs') =>
                (Test(obs'.after.P, FLAG_I) <=> Test(obs'.checked.P, FLAG_I))
         /\ ChangedI(obs) =>
                /\ Test(obs'.checked.P, FLAG_I) <=> ScheduledI(obs)
                /\ ~Test(obs'.checked.interupt_flags, DELAYED_INTERRUPT_DISABLE)
                /\ (obs'.kind = "instr" /\ obs'.opcode # \h00) =>
                       (Test(obs'.after.P, FLAG_I) <=> ScheduledI(obs))
      ]_vars

\* a step whose commit changed the I bit of P
C2_Witness ==
    /\ obs.op = "cpu_step"
    /\ Test(obs.before.interupt_flags, DELAYED_INTERRUPT_DISABLE)
    /\ Test(obs.before.P, FLAG_I) # Test(obs.checked.P, FLAG_I)
    /\ obs.kind = "instr"

\* C3: when the step that executes RTI returns, the I bit of P is bit 2 of
\* the status byte RTI popped (the second bus access of the step).
C3_RtiRestoresI ==
    (obs.op = "cpu_step" /\ obs.kind = "instr" /\ obs.opcode = \h40)
    => (Test(obs.after.P, FLAG_I) <=> Test(obs.log[2].v, FLAG_I))

\* C4: a cpu_step that services an interrupt reads only the two vector
\* bytes (no opcode), writes PC high, PC low and P with U set and B clear
\* to the stack in this order, sets I, loads PC from the vector (0xFFFA for
\* NMI, 0xFFFE for IRQ), clears only the bit of the interrupt it serviced,
\* and returns 7.
C4_InterruptEntry ==
    (obs.op = "cpu_step" /\ obs.kind = "interrupt") =>
        LET c0     == obs.checked
            nmi    == c0.interupt_flags % 2 = 1
            vec    == IF nmi THEN 65530 ELSE 65534
            reads  == SelectSeq(obs.log, LAMBDA e : e.k = "r")
            writes == SelectSeq(obs.log, LAMBDA e : e.k = "w")
            pushed == writes[3].v
        IN  /\ obs.ret = 7
            /\ Len(reads) = 2 /\ Len(writes) = 3
            /\ {reads[1].a, reads[2].a} = {vec, vec + 1}
            /\ writes[1] = [k |-> "w", a |-> 256 + c0.SP, v |-> c0.PC \div 256]
            /\ writes[2] = [k |-> "w", a |-> 256 + ((c0.SP + 255) % 256),
                            v |-> c0.PC % 256]
            /\ writes[3].a = 256 + ((c0.SP + 254) % 256)
            /\ (pushed \div 32) % 2 = 1 /\ (pushed \div 16) % 2 = 0
            /\ pushed % 16 = c0.P % 16 /\ pushed \div 64 = c0.P \div 64
            /\ obs.after.SP = (c0.SP + 253) % 256
            /\ (obs.after.P \div 4) % 2 = 1
            /\ obs.after.P % 4 = c0.P % 4 /\ obs.after.P \div 8 = c0.P \div 8
            /\ obs.after.PC = prg_read(cart, vec) + 256 * prg_read(cart, vec + 1)
            /\ obs.after.interupt_flags = c0.interupt_flags - (IF nmi THEN 1 ELSE 2)

\* a step that serviced the NMI with the IRQ latched too
C4_Witness ==
    /\ obs.op = "cpu_step" /\ obs.kind = "interrupt"
    /\ Test(obs.checked.interupt_flags, INTERRUPT_NMI)
    /\ Test(obs.checked.interupt_flags, INTERRUPT_IRQ)
    /\ Test(obs.after.interupt_flags, INTERRUPT_IRQ)

---------------------------------------------------------------------------
(* SpecBus: the CPU bus behind its interface (cpu.h): cpu_write and        *)
(* cpu_read called in any order on the machine main constructs, with the   *)
(* addresses of BusAddrs and the bytes of BusBytes.  obs describes the     *)
(* last call and the call before it.                                       *)

MaxBusOps == 3

\* both ends of each 2 KiB quarter of 0x0000-0x1FFF, and a PRG ROM address
BusAddrs == {\h0000, \h07FF, \h0800, \h0FFF, \h1800, \h1FFF, \h8000}

BusBytes == {\h01, \hFF}

\* the operation obs describes, without its own history
Last(o) == IF o.op = "none" THEN o ELSE [op |-> o.op, a |-> o.a, v |-> o.v]

InitBus ==
    /\ Booted(Image(<<>>, <<>>, <<>>, 0))
    /\ main = [global_ppu |-> TRUE, pc |-> "run", calls |-> 0]
    /\ obs = NoObs

BusWrite ==
    /\ main.calls < MaxBusOps
    /\ \E a \in BusAddrs, V \in BusBytes :
           /\ Store(cpu_write(Machine, a, V))
           /\ obs' = [op |-> "cpu_write", a |-> a, v |-> V, prev |-> Last(obs)]
    /\ main' = [main EXCEPT !.calls = @ + 1]

BusRead ==
    /\ main.calls < MaxBusOps
    /\ \E a \in BusAddrs :
           LET Read(r) ==
                   /\ Store(r.m)
                   /\ obs' = [op |-> "cpu_read", a |-> a, v |-> r.v,
                              prev |-> Last(obs)]
           IN  Read(cpu_read(Machine, a))
    /\ main' = [main EXCEPT !.calls = @ + 1]

NextBus == BusWrite \/ BusRead

SpecBus == InitBus /\ [][NextBus]_vars

\* C8: a cpu_read of a XOR 0x0800 that follows the cpu_write of V to an
\* address a below 0x2000 returns V.
C8_RamMirror ==
    (/\ obs.op = "cpu_read"
     /\ obs.prev.op = "cpu_write"
     /\ obs.prev.a < \h2000
     /\ obs.a = BXor(obs.prev.a, \h0800))
    => obs.v = obs.prev.v

---------------------------------------------------------------------------
(* SpecVram: the PPU address space behind ppu_vram_write_byte and          *)
(* ppu_vram_read_byte, called in any order for both mirroring modes of the *)
(* cartridge, with the addresses of VramAddrs and the bytes of VramBytes.  *)

MaxVramOps == 2

\* both ends of the four logical nametables, the eight aliased palette
\* entries and two that are not aliased
VramAddrs ==
    {\h2000, \h23FF, \h2400, \h27FF, \h2800, \h2BFF, \h2C00, \h2FFF,
     \h3F00, \h3F04, \h3F08, \h3F0C, \h3F10, \h3F14, \h3F18, \h3F1C,
     \h3F01, \h3F11}

VramBytes == {\h01, \h2A}

\* what reading each of the 32 palette addresses returns
PaletteView(M) == [a \in \h3F00 .. \h3F1F |-> ppu_vram_read_byte(M, a)]

InitVram ==
    /\ \E mirror \in {0, 1} : Booted(Image(<<>>, <<>>, <<>>, mirror))
    /\ main = [global_ppu |-> TRUE, pc |-> "run", calls |-> 0]
    /\ obs = NoObs

VramWrite ==
    /\ main.calls < MaxVramOps
    /\ \E a \in VramAddrs, V \in VramBytes :
           LET Written(N) ==
                   /\ Store(N)
                   /\ obs' = [op |-> "vram_write", a |-> a, v |-> V,
                              prev |-> Last(obs),
                              before |-> PaletteView(Machine),
                              after |-> PaletteView(N)]
           IN  Written(ppu_vram_write_byte(Machine, a, V))
    /\ main' = [main EXCEPT !.calls = @ + 1]

VramRead ==
    /\ main.calls < MaxVramOps
    /\ \E a \in VramAddrs :
           /\ Store(Machine)
           /\ obs' = [op |-> "vram_read", a |-> a,
                      v |-> ppu_vram_read_byte(Machine, a), prev |-> Last(obs)]
    /\ main' = [main EXCEPT !.calls = @ + 1]

NextVram == VramWrite \/ VramRead

SpecVram == InitVram /\ [][NextVram]_vars

\* the mirror of logical nametable address a: the same offset in the page
\* 0x0400 away in horizontal mode (0), 0x0800 away in vertical mode (1)
NametableMirror(mirror, a) ==
    IF mirror = 0 THEN BXor(a, \h0400) ELSE BXor(a, \h0800)

\* C9: in both mirroring modes, a read of the mirror of a logical nametable
\* address that follows the write of V to that address returns V.
C9_NametableMirror ==
    (/\ obs.op = "vram_read"
     /\ obs.prev.op = "vram_write"
     /\ obs.prev.a \in \h2000 .. \h2FFF
     /\ obs.a = NametableMirror(cart.mirror, obs.prev.a))
    => obs.v = obs.prev.v

\* the palette addresses 0x3F00/04/08/0C and 0x3F10/14/18/1C
PaletteAliased == {\h3F00 + 4 * i : i \in 0 .. 7}

\* C10: a read of 0x3F00/04/08/0C that follows the write of V to
\* 0x3F10/14/18/1C returns V, and the other way round; a write to a palette
\* address changes what a read returns at that address and, for these
\* eight, at its alias, and at no other palette address.
C10_PaletteMirror ==
    /\ (/\ obs.op = "vram_read"
        /\ obs.prev.op = "vram_write"
        /\ obs.prev.a \in PaletteAliased
        /\ obs.a = BXor(obs.prev.a, \h10))
       => obs.v = obs.prev.v
    /\ (obs.op = "vram_write" /\ obs.a \in \h3F00 .. \h3F1F)
       => \A p \in \h3F00 .. \h3F1F :
              obs.after[p] =
                  IF p = obs.a \/ (obs.a \in PaletteAliased /\ p = BXor(obs.a, \h10))
                  THEN obs.v ELSE obs.before[p]

\* 0x2A written to 0x3F1C and read back at 0x3F0C
C10_Witness ==
    /\ obs.op = "vram_read" /\ obs.a = \h3F0C /\ obs.v = \h2A
    /\ obs.prev.op = "vram_write" /\ obs.prev.a = \h3F1C

---------------------------------------------------------------------------
(* SpecPpu: the PPU behind its interface (ppu.h): ppu_clock called for one *)
(* dot or for the 341 dots of a scanline, with reads of PPUSTATUS and      *)
(* writes of PPUCTRL (NMI enable on or off) in between, from ppu_init to   *)
(* the end of the first whole frame.  main counts the frames that ended,   *)
(* the times status bit 7 rose in the frame in progress, the PPUSTATUS     *)
(* reads since it last rose, and the one-dot calls.                        *)

MaxDots == 90024
MaxSingles == 1
MaxReads == 2

\* what one ppu_clock call did to the VBlank bit and to the NMI request, and
\* whether it ended the frame
ClockObs(M, N) ==
    [scanline |-> M.ppu.scanline, cycle |-> M.ppu.cycle,
     ctrl |-> M.ppu.ppuctrl,
     vblank |-> Test(M.ppu.ppustatus, \h80),
     vblank_after |-> Test(N.ppu.ppustatus, \h80),
     nmi |-> M.ppu.nmi_occurred, nmi_after |-> N.ppu.nmi_occurred,
     frame |-> N.ppu.scanline < M.ppu.scanline]

\* the calls worth recording: a change of either flag, dot 1 of scanline
\* 241, the end of a frame
Notable(e) ==
    \/ e.vblank # e.vblank_after
    \/ e.nmi # e.nmi_after
    \/ (e.scanline = 241 /\ e.cycle = 1)
    \/ e.frame

\* n calls of ppu_clock in a row, as in main's loop over cyc * 3; the
\* notable ones are appended to events
RECURSIVE clocks(_, _, _)
clocks(M, n, events) ==
    IF n = 0 THEN [m |-> M, v |-> events]
    ELSE IF n = 1
    THEN LET Clocked(N) ==
                 LET Seen(e) ==
                         [m |-> N,
                          v |-> IF Notable(e) THEN Append(events, e) ELSE events]
                 IN  Seen(ClockObs(M, N))
         IN  Clocked(ppu_clock(M))
    ELSE LET \* the first half is evaluated before the second begins
             Rest(r) ==
                 IF r.m.ppu.ppu_cycles > M.ppu.ppu_cycles
                 THEN clocks(r.m, n - (n \div 2), r.v) ELSE r
         IN  Rest(clocks(M, n \div 2, events))

\* the number of times status bit 7 rose in each frame that ended during
\* events, followed by the number in the frame still in progress, starting
\* from n
RECURSIVE FrameSets(_, _, _)
FrameSets(events, n, ended) ==
    IF events = <<>> THEN Append(ended, n)
    ELSE LET e  == Head(events)
             n1 == IF ~e.vblank /\ e.vblank_after THEN n + 1 ELSE n
         IN  IF e.frame
             THEN FrameSets(Tail(events), 0, Append(ended, n1))
             ELSE FrameSets(Tail(events), n1, ended)

InitPpu ==
    /\ Booted(Image(<<>>, <<>>, <<>>, 0))
    /\ main = [global_ppu |-> TRUE, pc |-> "run", calls |-> 0, frames |-> 0,
               sets |-> 0, reads |-> 0]
    /\ obs = NoObs

PpuClocks(n) ==
    /\ ppu.ppu_cycles + n <= MaxDots
    /\ LET Clocked(r) ==
               LET Counted(sets) ==
                       /\ Store(r.m)
                       /\ obs' = [op |-> "ppu_clock", events |-> r.v,
                                  frames |-> main.frames,
                                  frame_sets |-> SubSeq(sets, 1, Len(sets) - 1)]
                       /\ main' = [main EXCEPT
                              !.frames = @ + Len(sets) - 1,
                              !.sets = sets[Len(sets)],
                              !.reads = IF \E i \in DOMAIN r.v :
                                               r.v[i].vblank_after /\ ~r.v[i].vblank
                                        THEN 0 ELSE @,
                              !.calls = IF n = 1 THEN @ + 1 ELSE @]
               IN  Counted(FrameSets(r.v, main.sets, <<>>))
       IN  Clocked(clocks(Machine, n, <<>>))

PpuDot == main.calls < MaxSingles /\ PpuClocks(1)

PpuScanline == PpuClocks(341)

StatusRead ==
    /\ main.reads < MaxReads
    /\ LET Read(r) ==
               /\ Store(r.m)
               /\ obs' = [op |-> "status_read", v |-> r.v,
                          scanline |-> ppu.scanline, cycle |-> ppu.cycle,
                          nth |-> main.reads + 1,
                          status_after |-> r.m.ppu.ppustatus]
       IN  Read(ppu_reg_read(Machine, \h2002))
    /\ main' = [main EXCEPT !.reads = @ + 1]

CtrlWrite ==
    /\ \E val \in {\h00, \h80} :
           /\ val # ppu.ppuctrl
           /\ Store(ppu_reg_write(Machine, \h2000, val))
           /\ obs' = [op |-> "ctrl_write", v |-> val]
    /\ UNCHANGED main

NextPpu == PpuDot \/ PpuScanline \/ StatusRead \/ CtrlWrite

SpecPpu == InitPpu /\ [][NextPpu]_vars

\* C6: the only ppu_clock call that takes status bit 7 from clear to set is
\* the one at scanline 241 dot 1, and it always does; bit 7 rises once in
\* every whole frame; the call raises the NMI request exactly when it is
\* the one at scanline 241 dot 1 and PPUCTRL bit 7 is set, and no call
\* takes the request back.
C6_VBlankCycle ==
    obs.op = "ppu_clock" =>
        /\ \A i \in DOMAIN obs.events :
               LET e  == obs.events[i]
                   at == e.scanline = 241 /\ e.cycle = 1
               IN  /\ (~e.vblank /\ e.vblank_after) <=> at
                   /\ e.nmi_after <=> (e.nmi \/ (at /\ Test(e.ctrl, \h80)))
        /\ \A i \in DOMAIN obs.frame_sets :
               obs.frames + i > 1 => obs.frame_sets[i] = 1

\* the first whole frame has ended, with bit 7 risen once and the NMI
\* request raised and still standing
C6_Witness ==
    /\ obs.op = "ppu_clock"
    /\ obs.frames = 1 /\ obs.frame_sets = <<1>>
    /\ ppu.nmi_occurred

\* C7: a PPUSTATUS read made in scanlines 241-260 after bit 7 was set
\* leaves bit 7 clear; the first such read since bit 7 was set returns bit
\* 7 = 1 and a later one returns bit 7 = 0.
C7_VBlankReadClear ==
    (/\ obs.op = "status_read"
     /\ \/ (obs.scanline = 241 /\ obs.cycle >= 2)
        \/ (obs.scanline > 241 /\ obs.scanline <= 260))
    => /\ ~Test(obs.status_after, \h80)
       /\ obs.nth = 1 => Test(obs.v, \h80)
       /\ obs.nth > 1 => ~Test(obs.v, \h80)

---------------------------------------------------------------------------
(* Spec: main's driver loop (main.c lines 199-277) on the machine it       *)
(* constructs, for the cartridges of Cartridges.  main.pc is the position  *)
(* in main: "frame" at the top of the outer loop, "loop" in the inner one. *)
(* main counts the PPU frames that ended and the NMI entries of the frame  *)
(* in progress, and keeps whether PPUCTRL bit 7 has been set since that    *)
(* frame began (on) and whether the last pass clocked dot 1 of scanline    *)
(* 241 with PPUCTRL bit 7 set (due).                                       *)

MaxFrames == 2

\* the keys held when the keyboard is sampled: none, or A and Right
Buttons == {\h00, \h81}

\* LDA #$80 ; STA $2000 ; loop: INC $0010,X ; INC $0010,X ; INC $0010,X ;
\* JMP loop, with the NMI handler RTI
\* LDA #$80 ; STA $2000 ; loop: INC $0010,X ; JMP loop, with the NMI
\* handler BIT $2002 ; RTI
\* JMP $0000
\* LDA #$80 ; .byte $02 (no opcode of opcodes.h)
Cartridges ==
    {Image(<<\hA9, \h80, \h8D, \h00, \h20, \hFE, \h10, \h00, \hFE, \h10,
             \h00, \hFE, \h10, \h00, \h4C, \h05, \h80>>, <<\h40>>, <<\h40>>, 0),
     Image(<<\hA9, \h80, \h8D, \h00, \h20, \hFE, \h10, \h00, \h4C, \h05,
             \h80>>, <<\h2C, \h02, \h20, \h40>>, <<\h40>>, 0),
     Image(<<\h4C, \h00, \h00>>, <<\h40>>, <<\h40>>, 0),
     Image(<<\hA9, \h80, \h02>>, <<\h40>>, <<\h40>>, 0)}

\* nmi_check without the reset of the PPU's request
nmi_check_request_kept(M) ==
    IF M.ppu.nmi_occurred /\ Test(M.ppu.ppuctrl, \h80)
    THEN cpu_interrupt(M, INTERRUPT_NMI) ELSE M

\* lines 222-226
nmi_check(M) ==
    IF M.ppu.nmi_occurred /\ Test(M.ppu.ppuctrl, \h80)
    THEN [cpu_interrupt(M, INTERRUPT_NMI) EXCEPT !.ppu.nmi_occurred = FALSE]
    ELSE M

\* lines 214-226: one pass of the inner loop up to the frame_done test;
\* abort_e ends the program before the PPU is clocked
iterate(M) ==
    LET Stepped(s) ==
            IF s.kind = "abort" \/ s.m.cpu.PC = 0
            THEN [m |-> s.m, step |-> s, events |-> <<>>, aborted |-> TRUE]
            ELSE LET Clocked(r) ==
                         [m |-> nmi_check(r.m), step |-> s, events |-> r.v,
                          aborted |-> FALSE]
                 IN  Clocked(clocks(s.m, 3 * s.v, <<>>))
    IN  Stepped(cpu_step(M))

Init ==
    /\ \E c \in Cartridges : Booted(c)
    /\ main = [global_ppu |-> TRUE, pc |-> "frame", running |-> TRUE,
               frames |-> 0, nmis |-> 0, on |-> FALSE, due |-> FALSE]
    /\ obs = NoObs

\* lines 199-212: the events are polled (quit), the keyboard is sampled for
\* both controllers, frame_done is cleared
FrameStart ==
    /\ main.pc = "frame" /\ main.running
    /\ main.frames < MaxFrames
    /\ \E quit \in BOOLEAN, state \in Buttons :
           /\ controller1' = controller_set_state(controller1, state)
           /\ controller2' = controller_set_state(controller2, state)
           /\ main' = [main EXCEPT !.pc = "loop", !.running = ~quit]
    /\ ppu' = [ppu EXCEPT !.frame_done = FALSE]
    /\ obs' = [op |-> "frame_start"]
    /\ UNCHANGED <<cpu, ram, interupt_disable, vram, pal_ram, oam,
                   framebuffer, cart>>

\* lines 213-232: one pass of the inner loop
Iterate ==
    /\ main.pc = "loop"
    /\ LET Passed(r) ==
               LET ended == r.m.ppu.frame_done
                   entry == /\ r.step.kind = "interrupt"
                            /\ Test(r.step.checked.interupt_flags, INTERRUPT_NMI)
                   nmis  == IF entry THEN main.nmis + 1 ELSE main.nmis
                   on    == main.on /\ Test(r.step.m.ppu.ppuctrl, \h80)
               IN  /\ Store([r.m EXCEPT !.ppu.frame_done = FALSE])
                   /\ main' = [main EXCEPT
                          !.pc = IF r.aborted THEN "aborted"
                                 ELSE IF ended THEN "frame" ELSE "loop",
                          !.frames = IF ended THEN @ + 1 ELSE @,
                          !.nmis = IF ended THEN 0 ELSE nmis,
                          !.on = IF ended THEN Test(r.m.ppu.ppuctrl, \h80)
                                 ELSE on,
                          !.due = \E i \in DOMAIN r.events :
                                      /\ r.events[i].scanline = 241
                                      /\ r.events[i].cycle = 1
                                      /\ Test(r.events[i].ctrl, \h80)]
                   /\ obs' = [op |-> "iterate", kind |-> r.step.kind,
                              due |-> main.due, nmi_entry |-> entry,
                              frame_end |-> ended, nmis |-> nmis, on |-> on,
                              whole |-> main.frames >= 1]
       IN  Passed(iterate(Machine))

\* lines 199 and 279-284: the outer loop ends once running is false
Exit ==
    /\ main.pc = "frame" /\ ~main.running
    /\ main' = [main EXCEPT !.pc = "exited"]
    /\ obs' = [op |-> "exit"]
    /\ UNCHANGED <<cpu, ram, interupt_disable, ppu, vram, pal_ram, oam,
                   framebuffer, controller1, controller2, cart>>

Next == FrameStart \/ Iterate \/ Exit

Spec == Init /\ [][Next]_vars

\* C5: the cpu_step of the pass that follows the pass in which dot 1 of
\* scanline 241 was clocked with PPUCTRL bit 7 set enters the NMI (it
\* fetches no instruction), no other cpu_step does, and a whole PPU frame
\* during which PPUCTRL bit 7 stayed set ends with one NMI entry counted.
C5_NmiDelivery ==
    obs.op = "iterate" =>
        /\ obs.due <=> obs.nmi_entry
        /\ (obs.frame_end /\ obs.whole /\ obs.on) => obs.nmis = 1

\* a whole frame with PPUCTRL bit 7 set throughout has ended, one NMI taken
C5_Witness ==
    /\ obs.op = "iterate"
    /\ obs.frame_end /\ obs.whole /\ obs.on
    /\ obs.nmis = 1

---------------------------------------------------------------------------
(* SpecPad: controller 1 behind the CPU bus: writes of the strobe port     *)
(* 0x4016, reads of 0x4016, and the button state installed by              *)
(* controller_set_state (as main does for both controllers), in any order, *)
(* on the machine main constructs.  obs describes the last call and keeps  *)
(* the state latched by the last falling edge of the strobe (-1 before     *)
(* the first) and the number of reads made since.                          *)

MaxPadOps == 11

PadStates == {\h00, \h35, \hFF}

\* the state latched by the last falling edge and the reads since, as obs
\* has them
PadHistory(o) ==
    IF o.op = "none" THEN [latched |-> -1, n |-> 0]
    ELSE [latched |-> o.latched, n |-> o.n]

PadSet ==
    /\ main.calls < MaxPadOps
    /\ \E state \in PadStates :
           /\ controller1' = controller_set_state(controller1, state)
           /\ controller2' = controller_set_state(controller2, state)
           /\ obs' = [op |-> "set_state", v |-> state,
                      latched |-> PadHistory(obs).latched,
                      n |-> PadHistory(obs).n,
                      shift_before |-> controller1.shift_reg,
                      shift_after |-> controller1'.shift_reg]
    /\ main' = [main EXCEPT !.calls = @ + 1]
    /\ UNCHANGED <<cpu, ram, interupt_disable, ppu, vram, pal_ram, oam,
                   framebuffer, cart>>

PadStrobe ==
    /\ main.calls < MaxPadOps
    /\ \E val \in {\h00, \h01, \h02} :
           LET Written(N) ==
                   LET falling == controller1.strobe = 1 /\ val % 2 = 0
                   IN  /\ Store(N)
                       /\ obs' = [op |-> "strobe", v |-> val,
                                  falling |-> falling,
                                  state |-> controller1.state,
                                  latched |-> IF falling THEN controller1.state
                                              ELSE PadHistory(obs).latched,
                                  n |-> IF falling THEN 0
                                        ELSE PadHistory(obs).n,
                                  shift_before |-> controller1.shift_reg,
                                  shift_after |-> N.c1.shift_reg]
           IN  Written(cpu_write(Machine, \h4016, val))
    /\ main' = [main EXCEPT !.calls = @ + 1]

PadRead ==
    /\ main.calls < MaxPadOps
    /\ LET Read(r) ==
               /\ Store(r.m)
               /\ obs' = [op |-> "read", v |-> r.v,
                          strobe |-> controller1.strobe,
                          state |-> controller1.state,
                          latched |-> PadHistory(obs).latched,
                          n |-> PadHistory(obs).n + 1]
       IN  Read(cpu_read(Machine, \h4016))
    /\ main' = [main EXCEPT !.calls = @ + 1]

NextPad == PadSet \/ PadStrobe \/ PadRead

SpecPad == InitBus /\ [][NextPad]_vars

\* bit i (0..7) of byte b
BitOf(b, i) == (b \div (2 ^ i)) % 2

\* C11: with the strobe low, the n-th read of 0x4016 (n = 1..8) since the
\* falling edge of the strobe returns in bit 0 the bit n - 1 of the button
\* state that edge latched.
C11_SerialProtocol ==
    (/\ obs.op = "read" /\ obs.strobe = 0
     /\ obs.latched >= 0 /\ obs.n <= 8)
    => obs.v % 2 = BitOf(obs.latched, obs.n - 1)

\* C12: a read of 0x4016 made while the strobe is 1 returns in bit 0 the
\* bit 0 of the button state held at that moment; a strobe write loads the
\* shift register with the button state when it takes the strobe from 1 to
\* 0 and otherwise leaves it as it was, controller_set_state leaves it as
\* it was, and the first read after a falling edge returns bit 0 of the
\* state that edge latched.
C12_StrobeHigh ==
    /\ (obs.op = "read" /\ obs.strobe = 1) => obs.v % 2 = obs.state % 2
    /\ obs.op = "strobe" =>
           obs.shift_after = IF obs.falling THEN obs.state ELSE obs.shift_before
    /\ obs.op = "set_state" => obs.shift_after = obs.shift_before
    /\ (obs.op = "read" /\ obs.strobe = 0 /\ obs.latched >= 0 /\ obs.n = 1)
       => obs.v % 2 = obs.latched % 2

\* a read with the strobe high returns bit 0 of a state installed after an
\* earlier read, whose bit 0 differs from that of the state latched before
C12_Witness ==
    /\ obs.op = "read" /\ obs.strobe = 1
    /\ obs.n >= 2 /\ obs.latched >= 0
    /\ obs.state % 2 # obs.latched % 2
    /\ obs.v % 2 = obs.state % 2



---------------------------------------------------------------------------
(* SpecAlu: the arithmetic instructions through cpu_step.  Every program   *)
(* sets or clears D, loads A, sets or clears C and executes ADC or SBC     *)
(* immediate: SED|CLD ; LDA #a ; SEC|CLC ; ADC|SBC #m.                      *)

AluBytes == {\h00, \h01, \h50, \h7F, \h80, \hB0, \hFF}

AluImages ==
    {Image(<<d, \hA9, a, c, op, m>>, <<\h40>>, <<\h40>>, 0) :
        d \in {\hD8, \hF8}, a \in AluBytes, c \in {\h18, \h38},
        op \in {\h69, \hE9}, m \in AluBytes}

InitAlu ==
    /\ \E c \in AluImages : Booted(c)
    /\ main = [global_ppu |-> TRUE, pc |-> "run", calls |-> 0]
    /\ obs = NoObs

SpecAlu == InitAlu /\ [][CpuStep]_vars

\* step o executed the instruction of opcode oc
Executed(o, oc) == o.op = "cpu_step" /\ o.kind = "instr" /\ o.opcode = oc

\* the operand of the immediate instruction of step o: its second bus
\* access, after the opcode fetch
Operand(o) == o.log[2].v

\* A + M + C as step o found them, M being the operand or its complement
AluSum(o, m) == o.before.A + m + get_flag(o.before.P, FLAG_C)

\* C13: after ADC the accumulator is (A + M + C) mod 256 and the carry flag
\* is set exactly when A + M + C exceeds 0xFF, whatever D is.
C13_AdcResultCarry ==
    Executed(obs, \h69)
    => /\ obs.after.A = AluSum(obs, Operand(obs)) % 256
       /\ Test(obs.after.P, FLAG_C) <=> (AluSum(obs, Operand(obs)) > \hFF)

\* an ADC with D set, carry in and carry out: 0xFF + 0xFF + 1 = 0x1FF
C13_Witness ==
    /\ Executed(obs, \h69)
    /\ Test(obs.before.P, FLAG_D)
    /\ Test(obs.before.P, FLAG_C)
    /\ obs.before.A = \hFF
    /\ Operand(obs) = \hFF
    /\ obs.after.A = \hFF
    /\ Test(obs.after.P, FLAG_C)

\* C14: after SBC the accumulator is (A + (255 - M) + C) mod 256 and the
\* carry flag is set exactly when A + (255 - M) + C exceeds 0xFF (no borrow).
C14_SbcResultCarry ==
    Executed(obs, \hE9)
    => /\ obs.after.A = AluSum(obs, \hFF - Operand(obs)) % 256
       /\ Test(obs.after.P, FLAG_C)
              <=> (AluSum(obs, \hFF - Operand(obs)) > \hFF)

\* C15: after ADC or SBC the V flag is set exactly when the old accumulator
\* and the operand (complemented for SBC) both differ in sign from the new
\* accumulator: ((A ^ result) & (M' ^ result) & 0x80) != 0.
C15_SignedOverflow ==
    LET Overflow(m) ==
            Test(BAnd(BXor(obs.before.A, obs.after.A), BXor(m, obs.after.A)),
                 \h80)
    IN  /\ Executed(obs, \h69)
           => (Test(obs.after.P, FLAG_V) <=> Overflow(Operand(obs)))
        /\ Executed(obs, \hE9)
           => (Test(obs.after.P, FLAG_V) <=> Overflow(\hFF - Operand(obs)))

---------------------------------------------------------------------------
(* SpecStack: the stack instructions through cpu_step, with cpu_interrupt  *)
(* called at any point.  A program sets SP (LDX #sp ; TXS) and runs a      *)
(* body, or, with SP as reset left it, pushes a byte and pops it into P;   *)
(* the NMI handler and the IRQ/BRK handler are a single RTI.               *)

\* stack pointers: the reset value, and the values where one, two or three
\* pushes leave 0x0100 for 0x01FF
StackPointers == {\h00, \h01, \h02, \hFD}

\* bytes left on the stack for PLP and RTI to pop
PopBytes == {\h00, \h10, \h20, \h30, \hCF, \hFF}

StackBodies ==
    {<<\h48, \h68>>,                              \* PHA ; PLA
     <<\h08, \h68>>,                              \* PHP ; PLA
     <<\h08, \h28>>,                              \* PHP ; PLP
     <<\h20, \h08, \h80, \hEA, \hEA, \h60>>,      \* JSR $8008 ; .. ; RTS
     <<\h00, \hEA, \hEA>>,                        \* BRK ; padding
     <<\hBA, \hE8, \h8D, \h00, \h02>>,            \* TSX ; INX ; STA $0200
     <<\hC9, \h01, \hD0, \h00, \h4C, \h03, \h80>>} \* CMP #1 ; BNE ; JMP $8003

StackImages ==
    {Image(<<\hA2, sp, \h9A>> \o body, <<\h40>>, <<\h40>>, 0) :
        sp \in StackPointers, body \in StackBodies}
    \cup {Image(<<\hA9, b, \h48, op>>, <<\h40>>, <<\h40>>, 0) :
             b \in PopBytes, op \in {\h28, \h40}}   \* LDA #b ; PHA ; PLP|RTI

InitStack ==
    /\ \E c \in StackImages : Booted(c)
    /\ main = [global_ppu |-> TRUE, pc |-> "run", calls |-> 0]
    /\ obs = NoObs

SpecStack == InitStack /\ [][NextCpu]_vars

\* the bytes cpu_step call o wrote, in order
Writes(o) == SelectSeq(o.log, LAMBDA x : x.k = "w")

\* what the instruction of opcode oc adds to SP, modulo 256; rti is the
\* number of bytes RTI pops
StackDelta(oc, rti) ==
    CASE oc \in {\h48, \h08} -> 255       \* PHA, PHP
      [] oc \in {\h68, \h28} -> 1         \* PLA, PLP
      [] oc = \h20 -> 254                 \* JSR
      [] oc = \h60 -> 2                   \* RTS
      [] oc = \h40 -> rti                 \* RTI
      [] oc = \h00 -> 253                 \* BRK
      [] OTHER -> 0

\* every instruction but TXS moves SP by the delta of its opcode, and TXS
\* copies X into SP
StackDeltas(rti) ==
    (obs.op = "cpu_step" /\ obs.kind = "instr")
    => obs.after.SP =
           IF obs.opcode = \h9A THEN obs.before.X
           ELSE (obs.before.SP + StackDelta(obs.opcode, rti)) % 256

\* C16 (amended): an instruction that does not touch the stack leaves SP
\* unchanged, TXS apart; PHA and PHP decrease SP by 1, PLA and PLP increase
\* it by 1, JSR decreases it by 2, RTS increases it by 2, RTI increases it
\* by 3 and BRK decreases it by 3, all modulo 256.
C16_StackDeltas == StackDeltas(3)

\* an RTI whose three pops wrap: SP 0xFF before, 0x02 after
C16_Witness ==
    /\ Executed(obs, \h40)
    /\ obs.before.SP = \hFF
    /\ obs.after.SP = \h02

\* C16 as stated: the same deltas, with RTI increasing SP by 2.
C16_StackDeltasAsStated == StackDeltas(2)

\* C17: JSR at p writes the high byte of p + 2 to 0x0100 + SP and the low
\* byte to the slot below it (modulo 256 within page 1), leaves SP two lower
\* and PC at its operand word; the RTS of the next cpu_step call sets PC to
\* p + 3 and SP to its value before the JSR.
C17_JsrRtsRoundTrip ==
    [][CpuStep =>
         /\ Executed(obs', \h20) =>
                LET p  == obs'.before.PC
                    sp == obs'.before.SP
                IN  /\ Writes(obs') =
                           <<[k |-> "w", a |-> \h100 + sp,
                              v |-> U16(p + 2) \div 256],
                             [k |-> "w", a |-> \h100 + ((sp + 255) % 256),
                              v |-> U16(p + 2) % 256]>>
                    /\ obs'.after.PC = obs'.log[2].v + 256 * obs'.log[3].v
                    /\ obs'.after.SP = (sp + 254) % 256
         /\ (Executed(obs, \h20) /\ Executed(obs', \h60)) =>
                /\ obs'.after.PC = U16(obs.before.PC + 3)
                /\ obs'.after.SP = obs.before.SP
      ]_vars

\* the RTS after JSR $8008 at 0x8003 with SP = 0x00: the return address is
\* read back from 0x01FF and 0x0100
C17_Witness ==
    /\ Executed(obs, \h60)
    /\ obs.log[2].a = \h01FF
    /\ obs.log[3].a = \h0100
    /\ obs.after.PC = \h8006
    /\ obs.after.SP = \h00

\* C18: BRK at p writes the high and low byte of p + 2 and then P with B
\* and U set to the stack, returns with I set in P and nothing else of P
\* changed, PC loaded from 0xFFFE/0xFFFF, and the value 7; the RTI of the
\* next cpu_step call pops that status byte and sets PC to p + 2.
C18_BrkRti ==
    [][CpuStep =>
         /\ Executed(obs', \h00) =>
                LET p  == obs'.before.PC
                    sp == obs'.before.SP
                    P0 == obs'.checked.P
                IN  /\ Writes(obs') =
                           <<[k |-> "w", a |-> \h100 + sp,
                              v |-> U16(p + 2) \div 256],
                             [k |-> "w", a |-> \h100 + ((sp + 255) % 256),
                              v |-> U16(p + 2) % 256],
                             [k |-> "w", a |-> \h100 + ((sp + 254) % 256),
                              v |-> BOr(P0, BOr(FLAG_B, FLAG_U))]>>
                    /\ obs'.after.P = BOr(P0, FLAG_I)
                    /\ obs'.after.PC =
                           prg_read(cart, \hFFFE) + 256 * prg_read(cart, \hFFFF)
                    /\ obs'.ret = 7
         /\ (Executed(obs, \h00) /\ Executed(obs', \h40)) =>
                /\ obs'.log[2] = [k |-> "r", a |-> Writes(obs)[3].a,
                                  v |-> Writes(obs)[3].v]
                /\ obs'.after.PC = U16(obs.before.PC + 2)
      ]_vars

\* the RTI of the handler after BRK at 0x8003 with SP = 0x01: the status
\* byte is read back from 0x01FF and the return address from 0x0100, 0x0101
C18_Witness ==
    /\ Executed(obs, \h40)
    /\ obs.before.PC = \h8200
    /\ obs.log[2].a = \h01FF
    /\ obs.log[3].a = \h0100
    /\ obs.log[4].a = \h0101
    /\ obs.after.PC = \h8005

\* C19: the status byte PHP writes, the one BRK writes and the one interrupt
\* entry writes (the third write of BRK and of the entry, after the return
\* address) all have bit 5 set; bit 4 is set in the bytes of PHP and BRK and
\* clear in the byte of NMI and IRQ entry.
C19_PushedStatus ==
    obs.op = "cpu_step"
    => /\ Executed(obs, \h08)
          => /\ Test(Writes(obs)[1].v, FLAG_U)
             /\ Test(Writes(obs)[1].v, FLAG_B)
       /\ Executed(obs, \h00)
          => /\ Test(Writes(obs)[3].v, FLAG_U)
             /\ Test(Writes(obs)[3].v, FLAG_B)
       /\ obs.kind = "interrupt"
          => /\ Test(Writes(obs)[3].v, FLAG_U)
             /\ ~Test(Writes(obs)[3].v, FLAG_B)

\* an interrupt entry after PLP popped 0xFF: the byte pushed is 0xEF
C19_Witness ==
    /\ obs.op = "cpu_step"
    /\ obs.kind = "interrupt"
    /\ Writes(obs)[3].v = \hEF

\* C20: bit 5 of the live P is set and bit 4 is clear in every state.
C20_LiveStatus == Test(cpu.P, FLAG_U) /\ ~Test(cpu.P, FLAG_B)

\* PLP or RTI has popped a byte with bit 5 clear, or one with bit 4 set
C20_Witness ==
    /\ Executed(obs, \h28) \/ Executed(obs, \h40)
    /\ ~Test(obs.log[2].v, FLAG_U) \/ Test(obs.log[2].v, FLAG_B)
    /\ obs.after.P = cpu.P
    /\ BAnd(cpu.P, pop_mask) = BAnd(obs.log[2].v, pop_mask)


---------------------------------------------------------------------------
(* SpecReset: cpu_step, cpu_interrupt and cpu_reset (cpu.h) called in any  *)
(* order.  The programs leave a delayed I change pending (SEI, CLI) and    *)
(* write RAM; cpu_reset and cpu_interrupt calls share the bound            *)
(* MaxInterrupts.                                                          *)

ResetImages ==
    {Image(code, <<\h40>>, <<\h40>>, 0) :
        code \in {<<\h58, \hA9, \hFF, \h48>>,           \* CLI ; LDA #$FF ; PHA
                  <<\hA9, \hFF, \h8D, \h00, \h02, \h78>>, \* LDA ; STA $0200 ; SEI
                  <<\hA2, \h01, \h9A, \h08, \hA8>>}}     \* LDX ; TXS ; PHP ; TAY

InitReset ==
    /\ \E c \in ResetImages : Booted(c)
    /\ main = [global_ppu |-> TRUE, pc |-> "run", calls |-> 0]
    /\ obs = NoObs

\* cpu_reset(&cpu) (part_001 lines 206-222) on the machine as it is
CpuReset ==
    /\ main.pc = "run"
    /\ main.calls < MaxInterrupts
    /\ LET Reset(m) ==
               /\ Store(m)
               /\ obs' = [op |-> "cpu_reset", log |-> m.log,
                          before |-> cpu, after |-> m.cpu]
       IN  Reset(cpu_reset(Machine))
    /\ main' = [main EXCEPT !.calls = @ + 1]

NextReset == CpuStep \/ CpuInterrupt \/ CpuReset

SpecReset == InitReset /\ [][NextReset]_vars

\* C21: when cpu_reset returns, RAM is all zero, A, X and Y are 0, SP is
\* 0xFD, P is U | I, PC is the word at 0xFFFC/0xFFFD, the cycle counter is 0
\* and no interrupt or delayed I change is pending; the cpu_step that
\* follows it executes the instruction at the reset vector.
C21_ResetPostcondition ==
    [][/\ CpuReset =>
              /\ ram' = Empty
              /\ cpu' = [A |-> 0, X |-> 0, Y |-> 0, SP |-> \hFD,
                         P |-> BOr(FLAG_U, FLAG_I),
                         PC |-> prg_read(cart, \hFFFC)
                                    + 256 * prg_read(cart, \hFFFD),
                         cycles |-> 0, interupt_flags |-> 0]
       /\ (CpuStep /\ obs.op = "cpu_reset") =>
              /\ obs'.kind = "instr"
              /\ obs'.log[1] = [k |-> "r", a |-> obs.after.PC,
                                v |-> prg_read(cart, obs.after.PC)]
      ]_vars


---------------------------------------------------------------------------
(* SpecIsa: single instructions through cpu_step, no interrupt requested.  *)
(* Each family of programs below exercises one group of handlers.          *)

\* JMP (ptr) at the reset vector, ptr in PRG ROM: at the end of a page
\* (0x80FF, 0x81FF, 0xFFFF) and inside one (0x8001, 0x8100, 0xFFFC)
JmpPointers == {\h80FF, \h81FF, \hFFFF, \h8001, \h8100, \hFFFC}

JmpImages ==
    {Image(<<\h6C, ptr % 256, ptr \div 256>>, <<\h40>>, <<\h58, \h40>>, 0) :
        ptr \in JmpPointers}


\* C22: JMP (ptr) reads the low byte of the new PC from ptr and the high
\* byte from ptr + 1, or from the start of ptr's page when the low byte of
\* ptr is 0xFF.
C22_JmpIndirectWrap ==
    Executed(obs, \h6C)
    => LET ptr  == obs.log[2].v + 256 * obs.log[3].v
           high == IF ptr % 256 = \hFF THEN ptr - \hFF ELSE ptr + 1
       IN  /\ Len(obs.log) = 5
           /\ obs.log[4] = [k |-> "r", a |-> ptr, v |-> prg_read(cart, ptr)]
           /\ obs.log[5] = [k |-> "r", a |-> high, v |-> prg_read(cart, high)]
           /\ obs.after.PC = obs.log[4].v + 256 * obs.log[5].v

\* JMP ($80FF): the high byte comes from 0x8000 (0x6C), not 0x8100 (0x40)
C22_Witness ==
    /\ Executed(obs, \h6C)
    /\ obs.log[4].a = \h80FF
    /\ obs.log[5].a = \h8000
    /\ obs.after.PC = \h6CEA


---------------------------------------------------------------------------
(* Further properties of Spec, the driver loop.                            *)

\* C23: after every pass of the driver loop the PPU's dot counter is three
\* times the CPU's cycle counter, the sum of what cpu_step has returned.
C23_CycleAccounting ==
    (obs.op = "iterate" /\ main.pc # "aborted")
    => ppu.ppu_cycles = 3 * cpu.cycles


---------------------------------------------------------------------------
(* SpecMap: cpu_read and cpu_write over the whole address map, on a 16 KiB *)
(* cartridge, in any order up to MaxBusOps calls.                          *)

\* RAM, PPUCTRL, the strobe port; APU registers, 0x4017, the expansion
\* area; PRG ROM at both ends of each 16 KiB half
MapAddrs ==
    {\h0000, \h2000, \h4016,
     \h4000, \h4013, \h4015, \h4017, \h4018, \h5000, \h7FFF,
     \h8000, \h8100, \hBFFA, \hBFFF, \hC000, \hC100, \hFFFA, \hFFFF}

InitMap ==
    /\ Booted(Image(<<\h4C, \h00, \h80>>, <<\h40>>, <<\h58, \h40>>, 0))
    /\ main = [global_ppu |-> TRUE, pc |-> "run", calls |-> 0]
    /\ obs = NoObs

\* cpu_write(&cpu, a, V) (part_001 lines 178-198)
MapWrite ==
    /\ main.calls < MaxBusOps
    /\ \E a \in MapAddrs, V \in BusBytes :
           /\ Store(cpu_write(Machine, a, V))
           /\ obs' = [op |-> "cpu_write", a |-> a, v |-> V]
    /\ main' = [main EXCEPT !.calls = @ + 1]

\* cpu_read(&cpu, a) (part_001 lines 137-176)
MapRead ==
    /\ main.calls < MaxBusOps
    /\ \E a \in MapAddrs :
           LET Read(r) ==
                   /\ Store(r.m)
                   /\ obs' = [op |-> "cpu_read", a |-> a, v |-> r.v]
           IN  Read(cpu_read(Machine, a))
    /\ main' = [main EXCEPT !.calls = @ + 1]

NextMap == MapWrite \/ MapRead

SpecMap == InitMap /\ [][NextMap]_vars

\* the addresses whose writes are dropped: APU registers, 0x4017, the
\* expansion area and the cartridge
WriteDropped(a) ==
    \/ a >= \h4000 /\ a <= \h4013
    \/ a = \h4015
    \/ a >= \h4017

\* the APU and unmapped addresses that read as 0
ReadUnmapped(a) ==
    \/ a >= \h4000 /\ a <= \h4013
    \/ a = \h4015
    \/ a >= \h4018 /\ a <= \h7FFF

\* C24: a cpu_write to an APU register, to 0x4017, to 0x4018-0x7FFF or to
\* the ROM changes neither RAM, the PPU, the controllers nor the cartridge,
\* and a cpu_read of an APU or unmapped address returns 0 and changes
\* nothing either.
C24_SilentDrops ==
    [][/\ (MapWrite /\ WriteDropped(obs'.a)) =>
              UNCHANGED <<cpu, ram, interupt_disable, ppu, vram, pal_ram, oam,
                          framebuffer, controller1, controller2, cart>>
       /\ (MapRead /\ ReadUnmapped(obs'.a)) =>
              /\ obs'.v = 0
              /\ UNCHANGED <<cpu, ram, interupt_disable, ppu, vram, pal_ram,
                             oam, framebuffer, controller1, controller2, cart>>
      ]_vars

\* a write to the ROM after RAM, PPUCTRL or the strobe have been written
C24_Witness ==
    /\ obs.op = "cpu_write"
    /\ obs.a = \hFFFA
    /\ prg_read(cart, \hFFFA) # obs.v
    /\ ram # Empty
    /\ controller1.strobe = 1

\* C25: with a 16 KiB PRG ROM, a cpu_read of a in 0x8000-0xBFFF and a
\* cpu_read of a + 0x4000 both return prg_rom[a - 0x8000]; the vectors at
\* 0xFFFA-0xFFFF are read from offsets 0x3FFA-0x3FFF.
C25_PrgMirror ==
    (obs.op = "cpu_read" /\ obs.a >= \h8000)
    => /\ cart.prg_size = 16384
       /\ obs.v = prg_rom(cart, IF obs.a < \hC000 THEN obs.a - \h8000
                                ELSE obs.a - \hC000)

\* the low byte of the NMI vector read at 0xFFFA: offset 0x3FFA, not fill
C25_Witness ==
    /\ obs.op = "cpu_read"
    /\ obs.a = \hFFFA
    /\ obs.v = cart.prg_rom[\h3FFA]
    /\ obs.v # cart.prg_fill


\* the byte at PC is no opcode of the dispatch table and no interrupt is
\* latched: the next cpu_step fetches it
UnknownOpcodeNext ==
    /\ cpu.PC >= \h8000
    /\ prg_read(cart, cpu.PC) \notin Opcodes
    /\ BAnd(cpu.interupt_flags, BOr(INTERRUPT_NMI, INTERRUPT_IRQ)) = 0

\* C26: the pass of the driver loop whose cpu_step fetches a byte without a
\* handler ends the program: nothing but the PC of the fetch changes (no
\* handler, no cycles, no PPU dot), and no step follows.
C26_UnknownOpcodeAborts ==
    [][/\ (Iterate /\ UnknownOpcodeNext) =>
              /\ obs'.kind = "abort"
              /\ main'.pc = "aborted"
              /\ cpu' = [cpu EXCEPT !.PC = U16(@ + 1)]
              /\ UNCHANGED <<ram, interupt_disable, ppu, vram, pal_ram, oam,
                             framebuffer, controller1, controller2, cart>>
       /\ main.pc # "aborted"
      ]_vars

\* the program LDA #$80 ; .byte $02 has stopped at the byte 0x02
C26_Witness ==
    /\ main.pc = "aborted"
    /\ obs.op = "iterate"
    /\ obs.kind = "abort"
    /\ prg_read(cart, cpu.PC - 1) = \h02
    /\ cpu.A = \h80
    /\ ppu.ppu_cycles = 6


\* the opcodes of ASL and ROL, and of LSR and ROR, in the order _ACC, _ZP,
\* _ZPX, _ABS, _ABSX (opcodes.h)
LeftShifts == {\h0A, \h06, \h16, \h0E, \h1E, \h2A, \h26, \h36, \h2E, \h3E}

RightShifts == {\h4A, \h46, \h56, \h4E, \h5E, \h6A, \h66, \h76, \h6E, \h7E}

ShiftBytes == {\h00, \h01, \h55, \h80, \hAA, \hFF}

\* the operand bytes that make the instruction of opcode oc work on 0x0010
\* when X is 1
OperandAt10(oc) ==
    CASE AddrMode(oc) \in {"ACC", "IMP"} -> <<>>
      [] AddrMode(oc) = "ZP" -> <<\h10>>
      [] AddrMode(oc) = "ZPX" -> <<\h0F>>
      [] AddrMode(oc) = "ABS" -> <<\h10, \h00>>
      [] AddrMode(oc) = "ABSX" -> <<\h0F, \h00>>

\* LDX #1 ; LDA #v ; STA $10 ; SEC|CLC ; shift or rotate of A or of 0x0010
ShiftImages ==
    {Image(<<\hA2, \h01, \hA9, v, \h85, \h10, c, oc>> \o OperandAt10(oc),
           <<\h40>>, <<\h40>>, 0) :
        v \in ShiftBytes, c \in {\h18, \h38},
        oc \in LeftShifts \cup RightShifts}

\* the byte the instruction of step o works on: A, the operand byte, or the
\* byte read at the effective address, the first bus access after the
\* fetches of the opcode and the address bytes
OperandByte(o) ==
    CASE AddrMode(o.opcode) = "ACC" -> o.before.A
      [] AddrMode(o.opcode) = "IMM" -> o.log[2].v
      [] AddrMode(o.opcode) \in {"ZP", "ZPX"} -> o.log[3].v
      [] AddrMode(o.opcode) \in {"ABS", "ABSX"} -> o.log[4].v

\* step o executed an instruction whose opcode is in set ocs
ExecutedIn(o, ocs) == o.op = "cpu_step" /\ o.kind = "instr" /\ o.opcode \in ocs

\* C27: after ASL and ROL the carry flag is bit 7 of the byte shifted, after
\* LSR and ROR it is bit 0 of it, in every addressing variant.
C27_ShiftCarry ==
    /\ ExecutedIn(obs, LeftShifts)
       => (Test(obs.after.P, FLAG_C) <=> Test(OperandByte(obs), \h80))
    /\ ExecutedIn(obs, RightShifts)
       => (Test(obs.after.P, FLAG_C) <=> Test(OperandByte(obs), \h01))


\* the instructions that set Z and N from the new A: LDA, TXA, TYA, PLA,
\* AND, ORA, EOR, ADC, SBC and the shifts of the accumulator
ResultInA ==
    {\hA9, \hA5, \hB5, \hAD, \hBD, \hB9, \hA1, \hB1, \h8A, \h98, \h68,
     \h29, \h25, \h35, \h2D, \h3D, \h39, \h21, \h31,
     \h09, \h05, \h15, \h0D, \h1D, \h19, \h01, \h11,
     \h49, \h45, \h55, \h4D, \h5D, \h59, \h41, \h51,
     \h69, \h65, \h75, \h6D, \h7D, \h79, \h61, \h71,
     \hE9, \hE5, \hF5, \hED, \hFD, \hF9, \hE1, \hF1,
     \h0A, \h4A, \h2A, \h6A}

\* from the new X: LDX, TAX, TSX, INX, DEX
ResultInX == {\hA2, \hA6, \hB6, \hAE, \hBE, \hAA, \hBA, \hE8, \hCA}

\* from the new Y: LDY, TAY, INY, DEY
ResultInY == {\hA0, \hA4, \hB4, \hAC, \hBC, \hA8, \hC8, \h88}

\* from the byte written back: INC, DEC and the shifts of memory
ResultInMemory ==
    {\hE6, \hF6, \hEE, \hFE, \hC6, \hD6, \hCE, \hDE}
    \cup ((LeftShifts \cup RightShifts) \ {\h0A, \h4A, \h2A, \h6A})

CmpOpcodes == {\hC9, \hC5, \hD5, \hCD, \hDD, \hD9, \hC1, \hD1}

CpxOpcodes == {\hE0, \hE4, \hEC}

CpyOpcodes == {\hC0, \hC4, \hCC}

Compares == CmpOpcodes \cup CpxOpcodes \cup CpyOpcodes

FlagBytes == {\h00, \h01, \h80, \hFF}

\* LDA #v ; LDX #v ; LDY #v and one more instruction, or PHA ; PLA
FlagImages ==
    {Image(<<\hA9, v, \hA2, v, \hA0, v>> \o ins, <<\h40>>, <<\h40>>, 0) :
        v \in FlagBytes,
        ins \in {<<\hAA>>, <<\hA8>>, <<\h8A>>, <<\h98>>, <<\hBA>>,
                 <<\hE8>>, <<\hCA>>, <<\hC8>>, <<\h88>>,
                 <<\hE6, \h10>>, <<\hC6, \h10>>, <<\h48, \h68>>}
                \cup {<<oc, m>> : oc \in {\h29, \h09, \h49, \h69, \hE9,
                                          \hC9, \hE0, \hC0},
                                  m \in FlagBytes}}

\* the register the compare of step o reads, by field name
CompareRegister(o) ==
    CASE o.opcode \in CmpOpcodes -> "A"
      [] o.opcode \in CpxOpcodes -> "X"
      [] o.opcode \in CpyOpcodes -> "Y"

\* the last byte step o read, and the last byte it wrote
LastRead(o) ==
    LET reads == SelectSeq(o.log, LAMBDA x : x.k = "r")
    IN  reads[Len(reads)].v

LastWrite(o) == Writes(o)[Len(Writes(o))].v

\* the result byte of the instruction of step o
ResultByte(o) ==
    CASE o.opcode \in ResultInA -> o.after.A
      [] o.opcode \in ResultInX -> o.after.X
      [] o.opcode \in ResultInY -> o.after.Y
      [] o.opcode \in ResultInMemory -> LastWrite(o)
      [] o.opcode \in Compares ->
             (o.before[CompareRegister(o)] - LastRead(o)) % 256

\* C28: after an instruction that sets Z and N from a result byte, Z tells
\* that the result is zero and N is its bit 7; after a compare, whose result
\* is (register - operand) mod 256, C tells in addition that the register
\* is not below the operand, and A, X and Y are as before.
C28_ZeroNegative ==
    /\ ExecutedIn(obs, ResultInA \cup ResultInX \cup ResultInY
                           \cup ResultInMemory \cup Compares)
       => /\ Test(obs.after.P, FLAG_Z) <=> (ResultByte(obs) = 0)
          /\ Test(obs.after.P, FLAG_N) <=> Test(ResultByte(obs), \h80)
    /\ ExecutedIn(obs, Compares)
       => /\ Test(obs.after.P, FLAG_C)
                 <=> (obs.before[CompareRegister(obs)] >= LastRead(obs))
          /\ obs.after.A = obs.before.A
          /\ obs.after.X = obs.before.X
          /\ obs.after.Y = obs.before.Y


---------------------------------------------------------------------------
(* Further properties of SpecStack.                                        *)

\* C29: when PLP or RTI returns, C, Z, D, V and N of P are those of the byte
\* it popped (the second bus access of the step) and bits 4 and 5 of P are
\* as they were, whatever the popped byte holds there.
C29_StatusPop ==
    ExecutedIn(obs, {\h28, \h40})
    => /\ BAnd(obs.after.P, pop_mask) = BAnd(obs.log[2].v, pop_mask)
       /\ Test(obs.after.P, FLAG_B) <=> Test(obs.before.P, FLAG_B)
       /\ Test(obs.after.P, FLAG_U) <=> Test(obs.before.P, FLAG_U)

\* RTI has popped 0xCF (bits 4 and 5 clear, the five flags set) into P =
\* 0xA4: the flags are copied and U stays set
C29_Witness ==
    /\ Executed(obs, \h40)
    /\ obs.log[2].v = \hCF
    /\ obs.before.P = \hA4
    /\ obs.after.P = \hEF


---------------------------------------------------------------------------
(* Further programs and properties of SpecIsa.                             *)

\* BPL, BMI, BVC, BVS, BCC, BCS, BNE, BEQ
BranchOpcodes == {\h10, \h30, \h50, \h70, \h90, \hB0, \hD0, \hF0}

\* offsets forward and backward, short and long
BranchOffsets == {\h02, \h10, \h7F, \h80, \hF0, \hFD}

\* the flags as reset leaves them (N, V, Z, C clear); LDA #$7F ; ADC #$01
\* (N and V set); LDA #$00 ; SEC (Z and C set)
BranchPrefixes ==
    {<<>>, <<\hA9, \h7F, \h69, \h01>>, <<\hA9, \h00, \h38>>}

\* the program at the reset vector, or at 0x80F0 behind JMP $80F0
AtPageEnd(code) == <<\h4C, \hF0, \h80>> \o [i \in 1 .. 237 |-> \hEA] \o code

BranchImages ==
    {Image(IF far THEN AtPageEnd(pre \o <<oc, off>>) ELSE pre \o <<oc, off>>,
           <<\h40>>, <<\h40>>, 0) :
        far \in BOOLEAN, pre \in BranchPrefixes, oc \in BranchOpcodes,
        off \in BranchOffsets}

\* the condition of the branch of opcode oc on status byte P
BranchCondition(oc, P) ==
    CASE oc = \h10 -> ~Test(P, FLAG_N)
      [] oc = \h30 -> Test(P, FLAG_N)
      [] oc = \h50 -> ~Test(P, FLAG_V)
      [] oc = \h70 -> Test(P, FLAG_V)
      [] oc = \h90 -> ~Test(P, FLAG_C)
      [] oc = \hB0 -> Test(P, FLAG_C)
      [] oc = \hD0 -> ~Test(P, FLAG_Z)
      [] oc = \hF0 -> Test(P, FLAG_Z)

\* C30: a branch whose condition is false returns 2 and leaves PC at the
\* next instruction; one whose condition is true adds the signed offset to
\* that PC and returns 3 when the target is in the page of the next
\* instruction, 4 otherwise.
C30_BranchTiming ==
    ExecutedIn(obs, BranchOpcodes)
    => LET next   == U16(obs.before.PC + 2)
           target == U16(next + int8(obs.log[2].v))
       IN  IF BranchCondition(obs.opcode, obs.before.P)
           THEN /\ obs.after.PC = target
                /\ obs.ret = IF target \div 256 = next \div 256 THEN 3 ELSE 4
           ELSE /\ obs.after.PC = next
                /\ obs.ret = 2

\* BVS at 0x8004 taken backward with offset 0x80: from 0x8006 to 0x7F86,
\* four cycles
C30_Witness ==
    /\ Executed(obs, \h70)
    /\ obs.before.PC = \h8004
    /\ obs.log[2].v = \h80
    /\ obs.after.PC = \h7F86
    /\ obs.ret = 4


---------------------------------------------------------------------------
(* Indexed addressing in SpecIsa: page crossing.                           *)

\* LDA, LDX, LDY, AND, ORA, EOR, ADC, SBC and CMP in their _ABSX, _ABSY and
\* _INDY variants (opcodes.h)
PagedReads ==
    {\hBD, \hB9, \hB1, \hBE, \hBC, \h3D, \h39, \h31, \h1D, \h19, \h11, \h5D,
     \h59, \h51, \h7D, \h79, \h71, \hFD, \hF9, \hF1, \hDD, \hD9, \hD1}

\* STA_ABSX, STA_ABSY, STA_INDY
PagedStores == {\h9D, \h99, \h91}

\* base addresses as <<low, high>>, and index values
PageBases ==
    {<<\h80, \h00>>, <<\hFF, \h00>>, <<\hF0, \h80>>, <<\h01, \hFF>>,
     <<\hFF, \hFF>>}

PageIndexes == {\h00, \h01, \h10, \hFF}

\* LDX #i ; LDY #i ; op base,X or base,Y; and LDA #lo ; STA $10 ; LDY #i ;
\* STY $11 ; op ($10),Y whose base address is i * 256 + lo
PagedImages ==
    {Image(<<\hA2, i, \hA0, i, oc, b[1], b[2]>>, <<\h40>>, <<\h40>>, 0) :
        i \in PageIndexes, b \in PageBases,
        oc \in {o \in PagedReads \cup PagedStores : AddrMode(o) # "INDY"}}
    \cup
    {Image(<<\hA9, b[1], \h85, \h10, \hA0, i, \h84, \h11, oc, \h10>>,
           <<\h40>>, <<\h40>>, 0) :
        i \in PageIndexes, b \in PageBases,
        oc \in {o \in PagedReads \cup PagedStores : AddrMode(o) = "INDY"}}

\* the base address of the indexed instruction of step o: the operand word,
\* or the word read through the zero-page pointer
PageBase(o) ==
    IF AddrMode(o.opcode) = "INDY" THEN o.log[3].v + 256 * o.log[4].v
    ELSE o.log[2].v + 256 * o.log[3].v

PageIndex(o) == IF AddrMode(o.opcode) = "ABSX" THEN o.before.X ELSE o.before.Y

\* the last bus access of step o
Access(o) == o.log[Len(o.log)]

\* C31: an indexed read (LDA .. CMP in absolute,X, absolute,Y, (indirect),Y)
\* reads at (base + index) mod 0x10000 and returns 4, 4, 5 plus one exactly
\* when that address is in another page than base; STA in these modes
\* writes there and returns 5, 5, 6 whatever the page.
C31_PageCrossing ==
    /\ ExecutedIn(obs, PagedReads)
       => LET addr == (PageBase(obs) + PageIndex(obs)) % 65536
          IN  /\ Access(obs).k = "r"
              /\ Access(obs).a = addr
              /\ obs.ret = (IF AddrMode(obs.opcode) = "INDY" THEN 5 ELSE 4)
                           + (IF addr \div 256 # PageBase(obs) \div 256
                              THEN 1 ELSE 0)
    /\ ExecutedIn(obs, PagedStores)
       => /\ Access(obs).k = "w"
          /\ Access(obs).a = (PageBase(obs) + PageIndex(obs)) % 65536
          /\ obs.ret = IF AddrMode(obs.opcode) = "INDY" THEN 6 ELSE 5

\* CMP ($10),Y with the pointer holding 0xFFFF and Y = 0xFF: the address
\* wraps to 0x00FE and the page cross is paid
C31_Witness ==
    /\ Executed(obs, \hD1)
    /\ PageBase(obs) = \hFFFF
    /\ obs.before.Y = \hFF
    /\ Access(obs).a = \h00FE
    /\ obs.ret = 6

\* STA $80F0,X with X = 0x10 crosses into 0x8100 and returns 5
C31_WitnessStore ==
    /\ Executed(obs, \h9D)
    /\ PageBase(obs) = \h80F0
    /\ Access(obs).a = \h8100
    /\ obs.ret = 5


---------------------------------------------------------------------------
(* Read-modify-write instructions in SpecIsa.                              *)

\* ASL, LSR, ROL, ROR, INC, DEC in their _ABSX variants (opcodes.h)
RmwAbsX == {\h1E, \h5E, \h3E, \h7E, \hFE, \hDE}

RmwBases == {<<\h10, \h00>>, <<\hFF, \h00>>, <<\h00, \h80>>, <<\hFF, \hFF>>}

RmwBytes == {\h00, \h01, \h80, \hFF}

\* LDX #i ; LDA #v ; STA base,X ; SEC|CLC ; op base,X
RmwAbsXImages ==
    {Image(<<\hA2, i, \hA9, v, \h9D, b[1], b[2], c, oc, b[1], b[2]>>,
           <<\h40>>, <<\h40>>, 0) :
        i \in PageIndexes, v \in RmwBytes, b \in RmwBases, c \in {\h18, \h38},
        oc \in RmwAbsX}

\* the value the instruction of step o makes of byte v
Modified(o, v) ==
    LET carry == IF Test(o.before.P, FLAG_C) THEN 1 ELSE 0
    IN  CASE o.opcode \in {\h0A, \h06, \h16, \h0E, \h1E} -> (v * 2) % 256
          [] o.opcode \in {\h4A, \h46, \h56, \h4E, \h5E} -> v \div 2
          [] o.opcode \in {\h2A, \h26, \h36, \h2E, \h3E} ->
                 ((v * 2) % 256) + carry
          [] o.opcode \in {\h6A, \h66, \h76, \h6E, \h7E} ->
                 (v \div 2) + 128 * carry
          [] o.opcode \in {\hE6, \hF6, \hEE, \hFE} -> (v + 1) % 256
          [] o.opcode \in {\hC6, \hD6, \hCE, \hDE} -> (v + 255) % 256

\* C32: ASL, LSR, ROL, ROR, INC and DEC absolute,X return 7 whether or not
\* base + X is in another page, and their bus accesses after the three
\* fetches are a read of the effective address, a write of the value read
\* and a write of the modified value, in that order and nothing more.
C32_RmwAbsoluteX ==
    ExecutedIn(obs, RmwAbsX)
    => LET addr == (PageBase(obs) + obs.before.X) % 65536
       IN  /\ obs.ret = 7
           /\ Len(obs.log) = 6
           /\ obs.log[4].k = "r" /\ obs.log[4].a = addr
           /\ obs.log[5] = [k |-> "w", a |-> addr, v |-> obs.log[4].v]
           /\ obs.log[6] = [k |-> "w", a |-> addr,
                            v |-> Modified(obs, obs.log[4].v)]

\* ROR $00FF,X with X = 1 and the carry set on 0x01 at 0x0100: the page is
\* crossed, 0x01 is written back and then 0x80
C32_Witness ==
    /\ Executed(obs, \h7E)
    /\ PageBase(obs) = \h00FF
    /\ obs.before.X = \h01
    /\ obs.ret = 7
    /\ obs.log[5] = [k |-> "w", a |-> \h0100, v |-> \h01]
    /\ obs.log[6] = [k |-> "w", a |-> \h0100, v |-> \h80]
    /\ ram[\h0100] = \h80


\* ASL, LSR, ROL, ROR, INC, DEC in their _ACC, _ZP, _ZPX and _ABS variants
RmwBase ==
    ((LeftShifts \cup RightShifts) \ RmwAbsX)
    \cup {\hE6, \hF6, \hEE, \hC6, \hD6, \hCE}

\* C33: ASL, LSR, ROL, ROR, INC and DEC return 2 cycles on the accumulator,
\* 5 in zero-page mode, 6 in zero-page,X mode and 6 in absolute mode.
C33_RmwBaseCycles ==
    ExecutedIn(obs, RmwBase)
    => obs.ret = CASE AddrMode(obs.opcode) = "ACC" -> 2
                   [] AddrMode(obs.opcode) = "ZP" -> 5
                   [] AddrMode(obs.opcode) \in {"ZPX", "ABS"} -> 6


\* LDX #1 ; LDA #v ; STA $10 ; INC or DEC of 0x0010 in each variant
IncDecImages ==
    {Image(<<\hA2, \h01, \hA9, v, \h85, \h10, oc>> \o OperandAt10(oc),
           <<\h40>>, <<\h40>>, 0) :
        v \in RmwBytes, oc \in {\hE6, \hF6, \hEE, \hC6, \hD6, \hCE}}


---------------------------------------------------------------------------
(* SpecReg: the PPU registers behind ppu_reg_write and ppu_reg_read, as    *)
(* the CPU bus calls them for 0x2000..0x3FFF (cpu.c, cpu_read, cpu_write), *)
(* on the machine main constructs.  RegRoundTrip is the sequence PPUADDR,  *)
(* PPUADDR, PPUDATA write, PPUADDR, PPUADDR, PPUDATA read, PPUDATA read.   *)

MaxRegOps == 3

\* the values written to each register, and the addresses (as <<H, L>>)
\* and values of the round trip: 0x2004, 0x20FF, 0x3F04
RegBytes(a) ==
    CASE a = \h2000 -> {\h00, \h04}
      [] a = \h2005 -> {\h00, \hFF}
      [] a = \h2006 -> {\h04, \h20, \hFF}
      [] a = \h2007 -> {\h04, \hFF}

TripAddrs == {<<\h20, \h04>>, <<\h20, \hFF>>, <<\hFF, \h04>>}

TripBytes == {\h04, \hFF}

PPUCTRL == \h2000
PPUSTATUS == \h2002
PPUSCROLL == \h2005
PPUADDR == \h2006
PPUDATA == \h2007

InitReg ==
    /\ \E mirror \in {0, 1} : Booted(Image(<<>>, <<>>, <<>>, mirror))
    /\ main = [global_ppu |-> TRUE, pc |-> "run", calls |-> 0]
    /\ obs = NoObs

\* the register access obs describes, without its own history
LastReg(o) ==
    IF o.op = "none" THEN o
    ELSE [op |-> o.op, a |-> o.a, v |-> o.v,
          write_toggle |-> o.before.write_toggle]

\* ppu_reg_write(p, a, val); memory is PPU memory as it was at the call
RegWrite ==
    /\ main.calls < MaxRegOps
    /\ \E a \in {PPUCTRL, PPUSCROLL, PPUADDR, PPUDATA} : \E val \in RegBytes(a) :
           /\ Store(ppu_reg_write(Machine, a, val))
           /\ obs' = [op |-> "reg_write", a |-> a, v |-> val, before |-> ppu,
                      memory |-> <<vram, pal_ram>>, prev |-> LastReg(obs)]
    /\ main' = [main EXCEPT !.calls = @ + 1]

\* ppu_reg_read(p, a)
RegRead ==
    /\ main.calls < MaxRegOps
    /\ \E a \in {PPUSTATUS, PPUDATA} :
           LET Read(r) ==
                   /\ Store(r.m)
                   /\ obs' = [op |-> "reg_read", a |-> a, v |-> r.v,
                              before |-> ppu, prev |-> LastReg(obs)]
           IN  Read(ppu_reg_read(Machine, a))
    /\ main' = [main EXCEPT !.calls = @ + 1]

\* with the toggle clear: PPUADDR = H, L ; PPUDATA = V ; PPUADDR = H, L ;
\* two PPUDATA reads
RegRoundTrip ==
    /\ main.calls < MaxRegOps
    /\ ~ppu.write_toggle
    /\ \E HL \in TripAddrs, V \in TripBytes :
           LET Addressed(M) ==
                   ppu_reg_write(ppu_reg_write(M, PPUADDR, HL[1]), PPUADDR,
                                 HL[2])
               Twice(r1) ==
                   LET Done(r2) ==
                           /\ Store(r2.m)
                           /\ obs' = [op |-> "round_trip",
                                      a |-> (HL[1] % 64) * 256 + HL[2], v |-> V,
                                      first |-> r1.v, second |-> r2.v,
                                      before |-> ppu, prev |-> LastReg(obs)]
                   IN  Done(ppu_reg_read(r1.m, PPUDATA))
           IN  Twice(ppu_reg_read(
                   Addressed(ppu_reg_write(Addressed(Machine), PPUDATA, V)),
                   PPUDATA))
    /\ main' = [main EXCEPT !.calls = @ + 1]

NextReg == RegWrite \/ RegRead \/ RegRoundTrip

SpecReg == InitReg /\ [][NextReg]_vars

\* step o wrote val to register a / read register a
Wrote(o, a) == o.op = "reg_write" /\ o.a = a

ReadFrom(o, a) == o.op = "reg_read" /\ o.a = a

\* C34: every write to PPUSCROLL or PPUADDR flips the one write toggle and
\* every PPUSTATUS read clears it; a PPUADDR write with the toggle clear
\* leaves v; a PPUADDR write H with the toggle clear followed by a PPUADDR
\* write L leaves v = t = ((H AND 0x3F) << 8) OR L; a write made with the
\* toggle set acts as the second write of its register whichever register
\* set the toggle (PPUADDR: low byte of t, then v = t; PPUSCROLL: fine Y and
\* coarse Y of t, v kept).
C34_TwoWriteProtocol ==
    /\ (Wrote(obs, PPUSCROLL) \/ Wrote(obs, PPUADDR))
       => ppu.write_toggle = ~obs.before.write_toggle
    /\ ReadFrom(obs, PPUSTATUS) => ~ppu.write_toggle
    /\ (Wrote(obs, PPUADDR) /\ ~obs.before.write_toggle)
       => ppu.vram_addr = obs.before.vram_addr
    /\ (/\ Wrote(obs, PPUADDR)
        /\ obs.prev.op = "reg_write" /\ obs.prev.a = PPUADDR
        /\ ~obs.prev.write_toggle)
       => /\ ppu.vram_addr = (obs.prev.v % 64) * 256 + obs.v
          /\ ppu.temp_addr = ppu.vram_addr
    /\ (Wrote(obs, PPUADDR) /\ obs.before.write_toggle)
       => /\ ppu.temp_addr = (obs.before.temp_addr \div 256) * 256 + obs.v
          /\ ppu.vram_addr = ppu.temp_addr
    /\ (Wrote(obs, PPUSCROLL) /\ obs.before.write_toggle)
       => /\ ppu.vram_addr = obs.before.vram_addr
          /\ ppu.temp_addr =
                 BAnd(obs.before.temp_addr, \h8C1F)
                 + (obs.v % 8) * 4096 + (obs.v \div 8) * 32

\* PPUADDR = 0xFF then 0x04 from the clear toggle: v = t = 0x3F04
C34_Witness ==
    /\ Wrote(obs, PPUADDR) /\ obs.v = \h04
    /\ obs.prev.op = "reg_write" /\ obs.prev.a = PPUADDR /\ obs.prev.v = \hFF
    /\ ~obs.prev.write_toggle
    /\ ppu.vram_addr = \h3F04 /\ ppu.temp_addr = \h3F04
    /\ ~ppu.write_toggle

\* a PPUADDR write that follows a first PPUSCROLL write is a second write
C34_WitnessShared ==
    /\ Wrote(obs, PPUADDR) /\ obs.v = \h20
    /\ obs.prev.op = "reg_write" /\ obs.prev.a = PPUSCROLL /\ obs.prev.v = \hFF
    /\ ~obs.prev.write_toggle
    /\ ppu.vram_addr = \h0020
    /\ ~ppu.write_toggle


\* the PPU address of a PPUDATA access: vram_addr as it was at the call
DataAddr(o) == o.before.vram_addr

\* the address after the access: 1 further, or 32 with PPUCTRL bit 2
Advanced(o) ==
    (DataAddr(o) + (IF (o.before.ppuctrl \div 4) % 2 = 1 THEN 32 ELSE 1))
    % 65536

\* the byte PPU memory holds for nametable or palette address a
MemoryAt(a) ==
    IF a % \h4000 < \h3F00
    THEN Get(vram, nametable_index(cart.mirror, a % \h4000))
    ELSE Get(pal_ram, palette_index(a))

\* the reads of PPUDATA, the advance of v, and the round trip through a
\* nametable address
DataReads ==
    /\ ReadFrom(obs, PPUDATA) /\ DataAddr(obs) < \h2000
       => /\ obs.v = obs.before.read_buffer
          /\ ppu.read_buffer = chr_rom(cart, DataAddr(obs) % cart.chr_size)
    /\ ReadFrom(obs, PPUDATA) /\ DataAddr(obs) \in \h2000 .. \h3EFF
       => /\ obs.v = obs.before.read_buffer
          /\ ppu.read_buffer = MemoryAt(DataAddr(obs))
    /\ ReadFrom(obs, PPUDATA) /\ DataAddr(obs) \in \h3F00 .. \h3FFF
       => obs.v = MemoryAt(DataAddr(obs))
    /\ (Wrote(obs, PPUDATA) \/ ReadFrom(obs, PPUDATA))
       => ppu.vram_addr = Advanced(obs)
    /\ (obs.op = "round_trip" /\ obs.a \in \h2000 .. \h3EFF)
       => obs.second = obs.v

\* C35 as stated: a PPUDATA write stores the byte at PPU address v,
\* whatever v; reads are buffered below 0x3F00 and immediate in the palette
\* range; every access advances v by 1 or 32; the round trip through a
\* nametable address returns V on the second read.
C35_PpuDataAsStated ==
    /\ Wrote(obs, PPUDATA)
       => ppu_vram_read_byte(Machine, DataAddr(obs)) = obs.v
    /\ DataReads

\* C35: a PPUDATA write stores the byte at PPU address v when v is a
\* nametable or palette address (0x2000..0x3FFF) and changes no memory when
\* v is in the pattern tables (0x0000..0x1FFF, CHR ROM); reads are buffered
\* below 0x3F00 and immediate in the palette range; every access advances v
\* by 1 or 32; the round trip through a nametable address returns V on the
\* second read.
C35_PpuData ==
    /\ Wrote(obs, PPUDATA) /\ DataAddr(obs) % \h4000 >= \h2000
       => MemoryAt(DataAddr(obs)) = obs.v
    /\ Wrote(obs, PPUDATA) /\ DataAddr(obs) % \h4000 < \h2000
       => <<vram, pal_ram>> = obs.memory
    /\ DataReads

\* the round trip through 0x20FF with PPUCTRL bit 2 set: the first read
\* returns the old buffer, the second 0xFF, and v ends at 0x20FF + 64
C35_Witness ==
    /\ obs.op = "round_trip" /\ obs.a = \h20FF /\ obs.v = \hFF
    /\ obs.before.ppuctrl = \h04
    /\ obs.first = 0 /\ obs.second = \hFF
    /\ ppu.vram_addr = \h213F

\* a palette read returns the byte at once
C35_WitnessPalette ==
    /\ obs.op = "round_trip" /\ obs.a = \h3F04 /\ obs.v = \hFF
    /\ obs.first = \hFF


---------------------------------------------------------------------------
(* SpecCount: ppu_clock called over and over on the PPU as ppu_init leaves *)
(* it; frame_done is cleared after each call that set it, as main's loop   *)
(* does (main.c lines 227-229).                                            *)

\* one frame of 262 scanlines of 341 dots (89342 clocks), the 341 dots of
\* the pre-render scanline the PPU starts on, and three dots more
MaxClocks == 89686

InitCount ==
    /\ Booted(Image(<<>>, <<>>, <<>>, 0))
    /\ main = [global_ppu |-> TRUE, pc |-> "run", calls |-> 0]
    /\ obs = NoObs

\* ppu_clock(&ppu)
PpuTick ==
    /\ ppu.ppu_cycles < MaxClocks
    /\ LET Clocked(N) ==
               /\ Store([N EXCEPT !.ppu.frame_done = FALSE])
               /\ obs' = [op |-> "ppu_clock", before |-> ppu, after |-> N.ppu]
       IN  Clocked(ppu_clock(Machine))
    /\ UNCHANGED main

SpecCount == InitCount /\ [][PpuTick]_vars

\* C38: the scanline is always in 0..261 and the dot in 0..340; a clock
\* takes dot d to d + 1, dot 340 to dot 0 of the next scanline, and dot 340
\* of scanline 261 to dot 0 of scanline 0 with frame_done set; frame_done
\* is set by the clocks numbered 341 + k * 89342 and by no other clock.
C38_Counters ==
    /\ ppu.scanline \in 0 .. 261
    /\ ppu.cycle \in 0 .. 340
    /\ obs.op = "ppu_clock"
       => LET b == obs.before
              a == obs.after
          IN  /\ a.cycle = (b.cycle + 1) % 341
              /\ a.scanline = IF b.cycle = 340 THEN (b.scanline + 1) % 262
                              ELSE b.scanline
              /\ a.frame_done <=> (b.cycle = 340 /\ b.scanline = 261)
              /\ a.frame_done <=> a.ppu_cycles % 89342 = 341
              /\ a.ppu_cycles = b.ppu_cycles + 1

\* the second frame has ended, 89342 clocks after the first
C38_Witness ==
    /\ obs.op = "ppu_clock"
    /\ obs.after.frame_done
    /\ obs.after.ppu_cycles = 341 + 89342
    /\ ppu.scanline = 0 /\ ppu.cycle = 0


---------------------------------------------------------------------------
(* SpecRender: the program sets the PPU up through its registers before    *)
(* the first clock (PPUMASK, the first and second write of PPUSCROLL), and *)
(* ppu_clock is then called dot by dot through the pre-render scanline,    *)
(* scanline 0 and the first dots of scanline 1.  The cartridge has empty   *)
(* character ROM, or a tile 0 whose plane 0 is all ones.                   *)

MaxSetups == 2
MaxRenderDots == 686

PPUMASK == \h2001

RenderCarts ==
    {Image(<<>>, <<>>, <<>>, 0),
     [Image(<<>>, <<>>, <<>>, 0) EXCEPT
         !.chr_rom = Place(0, [i \in 1 .. 8 |-> \hFF])]}

SetupWrites ==
    {<<PPUMASK, \h08>>, <<PPUMASK, \h10>>, <<PPUMASK, \h18>>,
     <<PPUSCROLL, \hFF>>}

InitRender ==
    /\ \E c \in RenderCarts : Booted(c)
    /\ main = [global_ppu |-> TRUE, pc |-> "run", calls |-> 0]
    /\ obs = NoObs

\* ppu_reg_write(p, a, val) before the first clock
RenderSetup ==
    /\ ppu.ppu_cycles = 0
    /\ main.calls < MaxSetups
    /\ \E w \in SetupWrites :
           /\ Store(ppu_reg_write(Machine, w[1], w[2]))
           /\ obs' = [op |-> "reg_write", a |-> w[1], v |-> w[2]]
    /\ main' = [main EXCEPT !.calls = @ + 1]

\* ppu_clock(&ppu)
RenderTick ==
    /\ ppu.ppu_cycles < MaxRenderDots
    /\ Store(ppu_clock(Machine))
    /\ obs' = [op |-> "ppu_clock", before |-> ppu]
    /\ UNCHANGED main

NextRender == RenderSetup \/ RenderTick

SpecRender == InitRender /\ [][NextRender]_vars

\* the clock obs describes was the one of dot d of scanline s
Clocked(o, s, d) ==
    o.op = "ppu_clock" /\ o.before.scanline = s /\ o.before.cycle = d

\* C36: a clock of the pre-render scanline (261) at a dot in 280..304
\* leaves the horizontal bits of v (mask 0x041F) as they were; with
\* rendering enabled (PPUMASK bit 3 or 4) the vertical bits of v (mask
\* 0x7BE0) are those of t once dot 304 is clocked, and with rendering
\* disabled v is unchanged.
C36_VerticalReload ==
    \A d \in 280 .. 304 :
        Clocked(obs, 261, d)
        => IF BAnd(obs.before.ppumask, \h18) # 0
           THEN /\ BAnd(ppu.vram_addr, \h041F)
                       = BAnd(obs.before.vram_addr, \h041F)
                /\ d = 304 => BAnd(ppu.vram_addr, \h7BE0)
                                  = BAnd(ppu.temp_addr, \h7BE0)
           ELSE ppu.vram_addr = obs.before.vram_addr

\* C37: after the clock of dot 257 of a visible scanline with background
\* rendering enabled (the scanlines on which fetch_background_data advances
\* v), the horizontal bits of v (mask 0x041F) equal those of t.
C37_HorizontalReload ==
    \A s \in 0 .. 239 :
        (Clocked(obs, s, 257) /\ Test(obs.before.ppumask, \h08))
        => BAnd(ppu.vram_addr, \h041F) = BAnd(ppu.temp_addr, \h041F)


\* the two colour-index bits of the background pixel at (x, y): the tile of
\* the nametable at 0x2000, its row y mod 8 in the pattern table of PPUCTRL
\* bit 4
BackgroundBits(x, y) ==
    LET tile == ppu_vram_read_byte(Machine, \h2000 + (y \div 8) * 32 + (x \div 8))
        row  == (IF Test(ppu.ppuctrl, \h10) THEN \h1000 ELSE 0)
                + tile * 16 + (y % 8)
    IN  plane_bits(ppu_vram_read_byte(Machine, row),
                   ppu_vram_read_byte(Machine, row + 8), 7 - (x % 8))

\* the two colour-index bits of sprite 0 at (x, y), 0 outside the sprite:
\* OAM bytes 0..3 are its Y, tile, attributes (bit 6 horizontal flip, bit 7
\* vertical flip) and X; 8 or 16 rows by PPUCTRL bit 5
SpriteZeroBits(x, y) ==
    LET height == IF Test(ppu.ppuctrl, \h20) THEN 16 ELSE 8
        tile == Get(oam, 1)
        row0 == y - (Get(oam, 0) + 1)
        col  == x - Get(oam, 3)
        row  == IF Test(Get(oam, 2), \h80) THEN height - 1 - row0 ELSE row0
        addr == IF height = 16
                THEN (tile % 2) * \h1000
                     + ((tile - (tile % 2) + (row \div 8)) % 256) * 16 + (row % 8)
                ELSE (IF Test(ppu.ppuctrl, \h08) THEN \h1000 ELSE 0)
                     + tile * 16 + row
    IN  IF row0 \in 0 .. height - 1 /\ col \in 0 .. 7
        THEN plane_bits(ppu_vram_read_byte(Machine, addr),
                        ppu_vram_read_byte(Machine, addr + 8),
                        IF Test(Get(oam, 2), \h40) THEN col ELSE 7 - col)
        ELSE 0

\* C39: with background and sprites rendered (PPUMASK bits 3 and 4), the
\* clock of a visible dot at pixel (x, y) leaves status bit 6 set exactly
\* when it was set already or sprite 0 has a non-transparent pixel at
\* (x, y), the background pixel there has non-zero colour-index bits and x
\* is not 255; no clock but the one of dot 1 of the pre-render scanline
\* clears the bit.
C39_SpriteZeroHit ==
    obs.op = "ppu_clock"
    => LET x == obs.before.cycle - 1
           y == obs.before.scanline
       IN  /\ (/\ y \in 0 .. 239 /\ x \in 0 .. 255
               /\ BAnd(obs.before.ppumask, \h18) = \h18)
              => (Test(ppu.ppustatus, \h40)
                  <=> \/ Test(obs.before.ppustatus, \h40)
                      \/ /\ SpriteZeroBits(x, y) # 0
                         /\ BackgroundBits(x, y) # 0
                         /\ x # 255)
           /\ (Test(obs.before.ppustatus, \h40) /\ ~Test(ppu.ppustatus, \h40))
              => Clocked(obs, 261, 1)


---------------------------------------------------------------------------
(* Interrupt arbitration in SpecCpu.                                       *)

\* the request bit of an interrupt type is latched in CPU record c
Pending(c, type) == Test(c.interupt_flags, type)

\* step o entered an interrupt through the vector at vec: the only reads
\* are the two vector bytes, and three bytes are pushed
Serviced(o, vec) ==
    /\ o.op = "cpu_step" /\ o.kind = "interrupt"
    /\ {e.a : e \in {o.log[i] : i \in {j \in DOMAIN o.log : o.log[j].k = "r"}}}
           = {vec, vec + 1}
    /\ Len(o.log) = 5
    /\ o.after.PC = prg_read(cart, vec) + 256 * prg_read(cart, vec + 1)
    /\ o.after.SP = (o.before.SP + 253) % 256

\* C40: a cpu_step that finds NMI and IRQ both latched services the NMI
\* alone (vector 0xFFFA/0xFFFB) and leaves the IRQ latched; a cpu_step that
\* finds the IRQ latched without the NMI services the IRQ (vector
\* 0xFFFE/0xFFFF), which is what the step after the NMI entry does; no step
\* clears both bits, and a latched bit is cleared by no call but the
\* cpu_step that services its interrupt.
C40_InterruptArbitration ==
    [][/\ (CpuStep /\ Pending(cpu, INTERRUPT_NMI))
          => /\ Serviced(obs', \hFFFA)
             /\ ~Pending(cpu', INTERRUPT_NMI)
             /\ Pending(cpu', INTERRUPT_IRQ) <=> Pending(cpu, INTERRUPT_IRQ)
       /\ (CpuStep /\ Pending(cpu, INTERRUPT_IRQ) /\ ~Pending(cpu, INTERRUPT_NMI))
          => /\ Serviced(obs', \hFFFE)
             /\ ~Pending(cpu', INTERRUPT_IRQ)
       /\ (Pending(cpu, INTERRUPT_NMI) /\ ~Pending(cpu', INTERRUPT_NMI))
          => (CpuStep /\ Serviced(obs', \hFFFA))
       /\ (Pending(cpu, INTERRUPT_IRQ) /\ ~Pending(cpu', INTERRUPT_IRQ))
          => (CpuStep /\ Serviced(obs', \hFFFE))
       /\ ~(/\ Pending(cpu, INTERRUPT_NMI) /\ ~Pending(cpu', INTERRUPT_NMI)
            /\ Pending(cpu, INTERRUPT_IRQ) /\ ~Pending(cpu', INTERRUPT_IRQ))
      ]_vars

\* the IRQ entry that follows the NMI entry made with both latched: PC was
\* the NMI handler's first address, the stack holds both frames
C40_Witness ==
    /\ Serviced(obs, \hFFFE)
    /\ obs.before.PC = \h8100
    /\ obs.before.SP = \hFA
    /\ obs.before.interupt_flags = INTERRUPT_IRQ
    /\ cpu.PC = \h8200 /\ cpu.SP = \hF7
    /\ cpu.interupt_flags = 0

\* every program of SpecIsa
IsaImages ==
    JmpImages
    \cup ShiftImages
    \cup FlagImages
    \cup BranchImages
    \cup PagedImages
    \cup RmwAbsXImages
    \cup IncDecImages

InitIsa ==
    /\ \E c \in IsaImages : Booted(c)
    /\ main = [global_ppu |-> TRUE, pc |-> "run", calls |-> 0]
    /\ obs = NoObs

SpecIsa == InitIsa /\ [][CpuStep]_vars

====
